---- MODULE Spec2Model ----
(***************************************************************************)
(* Model of the print-server label scanner: the recogniser chain of        *)
(* core/parsers (dispatch_page, TikTokJTParser, ShopeeSPXParser,           *)
(* ShopeeGHNParser) and the document scanner scan_pdf.scan_pdf_for_orders. *)
(*                                                                         *)
(* Text.  A Python str is a sequence of characters; every character is a   *)
(* one-symbol TLA+ string.  The module is ASCII, so a Vietnamese letter is *)
(* spelled by name ("a_tilde", "d_stroke", "o_horn", ...; the capital is   *)
(* "A_tilde", ...); such a symbol is ONE character of the str.             *)
(* Python's None is NoneT where the code expects a str, NoneN where it     *)
(* expects a coordinate and PyNone where it expects one of the short       *)
(* codes (platform, delivery_method), which are kept as TLA+ strings.      *)
(***************************************************************************)
EXTENDS Integers, Sequences, FiniteSets, TLC

VARIABLES
    PARSERS,          \* core/parsers/__init__.py: the module-level chain
    dispatched,       \* the last dispatch_page call: page, calls made, value returned
    doc,              \* the document scan_pdf_for_orders has open (sequence of pages)
    i,                \* scan_pdf_for_orders: the page the loop is at (1-based)
    rows,             \* scan_pdf_for_orders: the local list `rows`
    delivery_method,  \* scan_pdf_for_orders: the function-local `delivery_method`
    status,           \* scan_pdf_for_orders: "idle", "scanning", "returned", "raised"
    helper,           \* the last _extract_shop_from_tu_den call: words, value returned
    earlier,          \* a caller's copy of what an earlier scan was given and gave back
    print_jobs,       \* database: the committed rows of table print_jobs, by id
    order_prints,     \* database: the committed rows of table order_prints, by id
    jobs,             \* logs/jobs.json: the job log, newest first
    spooled,          \* the print commands issued to the spooler, oldest first
    requests,         \* app.api_print: the requests being served, by worker thread
    clock,            \* the number of requests received
    uploaded_files,   \* database: the committed rows of table uploaded_files
    file_orders,      \* database: the committed rows of table file_orders
    upload,           \* app.api_upload: the request being served and its session
    job               \* app.add_job: the record the last call returned

\* the state of the dispatcher and the scanner
callVars == <<PARSERS, dispatched, doc, i, rows, delivery_method, status, helper>>

\* the state of the print server: its tables, its log, the spooler, its threads
printVars == <<print_jobs, order_prints, jobs, spooled, requests, clock>>

\* the state a call of the dispatcher or the scanner does not touch
restVars == <<earlier, print_jobs, order_prints, jobs, spooled, requests, clock,
              uploaded_files, file_orders, upload, job>>

\* the tables api_upload writes and the upload being served
uploadVars == <<uploaded_files, file_orders, upload>>

vars == <<PARSERS, dispatched, doc, i, rows, delivery_method, status, helper, earlier,
          print_jobs, order_prints, jobs, spooled, requests, clock,
          uploaded_files, file_orders, upload, job>>

-----------------------------------------------------------------------------
(* Bounds of the model *)

\* the longest document a scan is started on
MaxPages == 2

\* the longest token list the shop-name helper is called on by itself
MaxWords == 3

\* the number of /api/print requests the server receives
MaxPrints == 3

\* the number of requests served at the same time
MaxThreads == 2

\* the longest token list of one sender block the shop-name helper is called on
MaxLine == 5

\* the number of uploads the server receives
MaxUploads == 3

\* the number of calls of add_job
MaxJobs == 203

-----------------------------------------------------------------------------
(* Python values *)

NoneT == <<"<None>">>
NoneN == -1
PyNone == "None"
Unbound == "<unbound>"

\* bool(s) of a str-or-None
TruthyT(s) == s # NoneT /\ s # <<>>

\* bool(n) of a number-or-None
TruthyN(n) == n # NoneN /\ n # 0

-----------------------------------------------------------------------------
(* Characters *)

CasePairs ==
    { <<"a","A">>, <<"b","B">>, <<"c","C">>, <<"d","D">>, <<"e","E">>,
      <<"f","F">>, <<"g","G">>, <<"h","H">>, <<"i","I">>, <<"j","J">>,
      <<"k","K">>, <<"l","L">>, <<"m","M">>, <<"n","N">>, <<"o","O">>,
      <<"p","P">>, <<"q","Q">>, <<"r","R">>, <<"s","S">>, <<"t","T">>,
      <<"u","U">>, <<"v","V">>, <<"w","W">>, <<"x","X">>, <<"y","Y">>,
      <<"z","Z">>,
      <<"a_tilde","A_tilde">>, <<"a_circ_dot","A_circ_dot">>, <<"a_grave","A_grave">>, <<"a_breve","A_breve">>,
      <<"d_stroke","D_stroke">>, <<"o_horn","O_horn">>, <<"o_horn_grave","O_horn_grave">>, <<"o_circ_acute","O_circ_acute">>,
      <<"u_horn","U_horn">>, <<"u_horn_hook","U_horn_hook">>, <<"u_horn_grave","U_horn_grave">>, <<"u_horn_acute","U_horn_acute">>,
      <<"e_circ_acute","E_circ_acute">>, <<"e_circ_dot","E_circ_dot">>, <<"i_grave","I_grave">> }

\* str.upper() / re.IGNORECASE folding of one character
UpperC(c) ==
    IF \E pr \in CasePairs : pr[1] = c
    THEN (CHOOSE pr \in CasePairs : pr[1] = c)[2]
    ELSE c

\* str.upper()
Upper(s) == [k \in 1..Len(s) |-> UpperC(s[k])]

\* \s of the regular expressions, and the separators of str.split()/strip()
IsSpace(c) == c \in {" ", "\n", "\r", "\t"}

\* [0-9] of the regular expressions
IsDigit09(c) == c \in {"0","1","2","3","4","5","6","7","8","9"}

\* str.isdigit(): the digits 0-9 and other digit characters, such as the
\* superscript two
IsDigit(c) == IsDigit09(c) \/ c = "sup_2"

\* s.startswith(prefix)
StartsWith(s, prefix) ==
    /\ Len(prefix) <= Len(s)
    /\ \A k \in 1..Len(prefix) : s[k] = prefix[k]

\* the literal `lit` occurs in s at position p
LitAt(s, p, lit) ==
    /\ p >= 1
    /\ p + Len(lit) - 1 <= Len(s)
    /\ \A k \in 1..Len(lit) : s[p + k - 1] = lit[k]

\* `lit in s`
Contains(s, lit) == \E p \in 1..(Len(s) + 1) : LitAt(s, p, lit)

\* the position after the longest run of characters satisfying \s from p (greedy \s*)
SkipSpace(s, p) ==
    CHOOSE q \in p..(Len(s) + 1) :
        /\ \A k \in p..(q - 1) : IsSpace(s[k])
        /\ q = Len(s) + 1 \/ ~IsSpace(s[q])

\* the position after the longest run of characters satisfying \S from p (greedy \S+)
SkipNonSpace(s, p) ==
    CHOOSE q \in p..(Len(s) + 1) :
        /\ \A k \in p..(q - 1) : ~IsSpace(s[k])
        /\ q = Len(s) + 1 \/ IsSpace(s[q])

\* s[p:q] of Python with 1-based p and exclusive q
Slice(s, p, q) == SubSeq(s, p, q - 1)

Min(S) == CHOOSE x \in S : \A y \in S : x <= y
Max(S) == CHOOSE x \in S : \A y \in S : x >= y

-----------------------------------------------------------------------------
(* Regular expressions.  A pattern is a sequence of pieces; a piece is a     *)
(* sequence of character classes, each the set of the upper-case characters *)
(* it accepts (all the patterns are compiled with re.IGNORECASE).           *)

\* the least element of a set of positions, 0 for the empty set
MinOr0(S) == IF S = {} THEN 0 ELSE Min(S)

\* the case-insensitive literal s as a piece
Lit(s) == [k \in 1..Len(s) |-> {UpperC(s[k])}]

\* the piece matches s at position p
PieceAt(s, p, piece) ==
    /\ p >= 1
    /\ p + Len(piece) - 1 <= Len(s)
    /\ \A k \in 1..Len(piece) : UpperC(s[p + k - 1]) \in piece[k]

\* piece1 \s* piece2 \s* ... pieceN \s* matched from p: the position after
\* the match, 0 when there is none
RECURSIVE PiecesEnd(_, _, _)
PiecesEnd(s, p, pieces) ==
    IF pieces = <<>> THEN p
    ELSE IF PieceAt(s, p, Head(pieces))
         THEN PiecesEnd(s, SkipSpace(s, p + Len(Head(pieces))), Tail(pieces))
         ELSE 0

\* q is a position of s (the label matched and a character follows)
InText(s, q) == q # 0 /\ q <= Len(s)

\* pieces \s* (\S+) matches at p
LabelAt(s, p, pieces) == InText(s, PiecesEnd(s, p, pieces))

\* (\S+) from q
ValueFrom(s, q) == Slice(s, q, SkipNonSpace(s, q))

\* group(1) of the match at the leftmost of the positions `starts`
LabelValue(s, starts, pieces) ==
    IF starts = {} THEN NoneT
    ELSE ValueFrom(s, PiecesEnd(s, Min(starts), pieces))

\* re.search(pieces \s* (\S+), s): group(1) of the leftmost match, None without one
SearchLabel(s, pieces) ==
    LabelValue(s, {p \in 1..Len(s) : LabelAt(s, p, pieces)}, pieces)

\* Ma\s*[vV]an\s*[dD]on\s*:  (the letters carry their Vietnamese marks)
RE_DELIVERY ==
    << Lit(<<"M","a_tilde">>), Lit(<<"v","a_circ_dot","n">>),
       Lit(<<"d_stroke","o_horn","n">>), Lit(<<":">>) >>

\* Ma\s*[d-stroke d]on\s*hang\s*:
RE_ORDER ==
    << Lit(<<"M","a_tilde">>), << {"D_stroke","D"}, {"O_horn"}, {"N"} >>,
       Lit(<<"h","a_grave","n","g">>), Lit(<<":">>) >>

\* Order\s*ID\s*:
RE_ORDER_ID == << Lit(<<"O","r","d","e","r">>), Lit(<<"I","D">>), Lit(<<":">>) >>

\* \w
IsWordChar(c) == c = "_" \/ IsDigit(c) \/ (\E pr \in CasePairs : c \in {pr[1], pr[2]})

\* \bET\b : "ET" with no word character on either side
SearchET(s) ==
    \E p \in 1..Len(s) :
        /\ LitAt(s, p, <<"E","T">>)
        /\ p = 1 \/ ~IsWordChar(s[p - 1])
        /\ p + 2 > Len(s) \/ ~IsWordChar(s[p + 2])

\* "J&T" in full_text or "J & T" in full_text
HasJT(s) == Contains(s, <<"J","&","T">>) \/ Contains(s, <<"J"," ","&"," ","T">>)

\* the address keywords of the sender pattern's lookahead, "Thanh pho" apart
AddressWords ==
    { Lit(<<"C","a_breve","n">>), Lit(<<"S","o_circ_acute">>),
      Lit(<<"P","h","u_horn","o_horn_grave","n","g">>), Lit(<<"X","a_tilde">>),
      Lit(<<"Q","u","a_circ_dot","n">>), Lit(<<"H","u","y","e_circ_dot","n">>) }

THANH == Lit(<<"T","h","a_grave","n","h">>)
PHO == Lit(<<"p","h","o_circ_acute">>)
NGUOI == Lit(<<"N","g","u_horn","o_horn_grave","i">>)
GUI == Lit(<<"g","u_horn_hook","i">>)

\* (?=\n|\r|Can|So|Phuong|Xa|Quan|Huyen|Thanh\s*pho|[0-9]) at position q;
\* the scanner's copy of the pattern spells the last keyword with one blank
LookaheadAt(s, q, blankOnly) ==
    /\ q <= Len(s)
    /\ \/ s[q] \in {"\n", "\r"}
       \/ IsDigit09(s[q])
       \/ \E w \in AddressWords \cup {THANH} :
              /\ PieceAt(s, q, w)
              /\ w = THANH =>
                     PieceAt(s, IF blankOnly
                                THEN (IF q + 5 <= Len(s) /\ s[q + 5] = " "
                                      THEN q + 6 ELSE 0)
                                ELSE SkipSpace(s, q + 5), PHO)

\* \s+gui from position q on, after Nguoi: the position after it, 0 without a match
GuiEnd(s, q, r) == IF r > q /\ PieceAt(s, r, GUI) THEN r + 3 ELSE 0

\* Nguoi\s+gui matched at p: the position after it, 0 when it does not match
SenderEnd(s, p) ==
    IF PieceAt(s, p, NGUOI) THEN GuiEnd(s, p + 5, SkipSpace(s, p + 5)) ELSE 0

\* the lazy group ([^\n\r]+?) started at g: the end (exclusive) of the
\* shortest run of one or more non-line-break characters that the lookahead
\* follows, 0 when there is none
GroupEnd(s, g, blankOnly) ==
    MinOr0({q \in (g + 1)..Len(s) :
               /\ \A k \in g..(q - 1) : s[k] \notin {"\n", "\r"}
               /\ LookaheadAt(s, q, blankOnly)})

\* <<start, end>> of the group started at the last of the positions gs
LastGroup(s, gs, blankOnly) ==
    IF gs = {} THEN <<0, 0>> ELSE <<Max(gs), GroupEnd(s, Max(gs), blankOnly)>>

\* the rest of the sender pattern after the label, which ends before e:
\* \s*[\n\r\s]* is greedy and gives blanks back one at a time, so the group
\* starts at the last position of the blank run from which it can be matched
GroupAfter(s, e, blankOnly) ==
    IF e = 0 THEN <<0, 0>>
    ELSE LastGroup(s, {g \in e..SkipSpace(s, e) : GroupEnd(s, g, blankOnly) # 0},
                   blankOnly)

\* the sender pattern matched at p: <<start, end>> of group(1), <<0, 0>>
\* without a match
SenderGroupAt(s, p, blankOnly) == GroupAfter(s, SenderEnd(s, p), blankOnly)

\* s[g[1]:g[2]]
SliceSpan(s, g) == Slice(s, g[1], g[2])

\* group(1) of the match at the leftmost of the positions `starts`
SenderValue(s, starts, blankOnly) ==
    IF starts = {} THEN NoneT
    ELSE SliceSpan(s, SenderGroupAt(s, Min(starts), blankOnly))

\* re.search(sender pattern, s).group(1), None without a match
SearchSender(s, blankOnly) ==
    SenderValue(s, {p \in 1..Len(s) : SenderGroupAt(s, p, blankOnly)[1] # 0}, blankOnly)

-----------------------------------------------------------------------------
(* str methods *)

\* s without the characters before the first and after the last position kept
Trim(s, keep) == IF keep = {} THEN <<>> ELSE SubSeq(s, Min(keep), Max(keep))

\* s.strip()
Strip(s) == Trim(s, {k \in 1..Len(s) : ~IsSpace(s[k])})

\* s.split(): the maximal runs of non-blank characters
RECURSIVE SplitFrom(_, _)
RECURSIVE SplitAt(_, _)
SplitAt(s, q) ==
    IF q > Len(s) THEN <<>>
    ELSE <<ValueFrom(s, q)>> \o SplitFrom(s, SkipNonSpace(s, q))

SplitFrom(s, p) == SplitAt(s, SkipSpace(s, p))

Split(s) == SplitFrom(s, 1)

\* " ".join(parts)
RECURSIVE Join(_)
Join(parts) ==
    IF parts = <<>> THEN <<>>
    ELSE IF Len(parts) = 1 THEN parts[1]
    ELSE parts[1] \o <<" ">> \o Join(Tail(parts))

\* sum(c.isdigit() for c in part)
DigitCount(part) == Cardinality({k \in 1..Len(part) : IsDigit(part[k])})

\* the literal "UNKNOWN_SHOP", kept as one symbol
UNKNOWN_SHOP == <<"UNKNOWN_SHOP">>

-----------------------------------------------------------------------------
(* core/parsers: the recognisers.  A page is [text, words, bad]: the str of *)
(* page.extract_text(layout=True), the list of page.extract_words() (each   *)
(* [text, x0, top, bottom]) and whether extraction raises on the page.      *)

\* None where a PageResult is expected
NoneR == [none |-> TRUE]

DEN == <<"D_stroke","e_circ_acute","n",":">>
TU == <<"T","u_horn_grave",":">>

\* the first w in words with `marker in w["text"]`, 0 when the loop ends without break
FirstWith(words, marker) ==
    MinOr0({k \in 1..Len(words) : Contains(words[k].text, marker)})

\* den_x0 = w["x0"] of the word found, None without one
AnchorX0(words, k) == IF k = 0 THEN NoneN ELSE words[k].x0

\* tu_y1 = w["bottom"] of the word found, None without one
AnchorBottom(words, k) == IF k = 0 THEN NoneN ELSE words[k].bottom

\* the loop `for w in words` of the shared helper from word k on
RECURSIVE ShopWordsFrom(_, _, _, _, _)
ShopWordsFrom(words, k, den_x0, tu_y1, found_line) ==
    IF k > Len(words) THEN <<>>
    ELSE IF tu_y1 < words[k].top /\ words[k].top < tu_y1 + 20
         THEN IF words[k].x0 < den_x0
              THEN <<words[k].text>> \o ShopWordsFrom(words, k + 1, den_x0, tu_y1, TRUE)
              ELSE IF found_line THEN <<>>
              ELSE ShopWordsFrom(words, k + 1, den_x0, tu_y1, found_line)
         ELSE ShopWordsFrom(words, k + 1, den_x0, tu_y1, found_line)

\* the texts of the words, in order
TextsOf(ws) == [k \in 1..Len(ws) |-> ws[k].text]

\* shop_words were the loop never to break: every word of the window
ShopWordsNoBreak(words, den_x0, tu_y1) ==
    IF den_x0 # NoneN /\ tu_y1 # NoneN
    THEN TextsOf(SelectSeq(words, LAMBDA w : tu_y1 < w.top /\ w.top < tu_y1 + 20
                                               /\ w.x0 < den_x0))
    ELSE <<>>

\* shop_words of the shared helper, given the two anchors
ShopWords(words, den_x0, tu_y1) ==
    IF den_x0 # NoneN /\ tu_y1 # NoneN
    THEN ShopWordsFrom(words, 1, den_x0, tu_y1, FALSE)
    ELSE <<>>

\* the helper ending in `return " ".join(shop_words).strip()`
OrEmpty(joined) == joined

\* joined or "UNKNOWN_SHOP"
OrUnknown(joined) == IF joined # <<>> THEN joined ELSE UNKNOWN_SHOP

\* shopee_spx._extract_shop_from_tu_den
extract_shop_from_tu_den(words) ==
    OrUnknown(Strip(Join(ShopWords(words,
                                   AnchorX0(words, FirstWith(words, DEN)),
                                   AnchorBottom(words, FirstWith(words, TU))))))

\* the loop, were a word of digits passed over instead of ending it
KeepPartsSkipping(parts) ==
    SelectSeq(parts, LAMBDA part : part # <<>> /\ 2 * DigitCount(part) < Len(part))

\* the loop `for part in parts` of TikTokJTParser._extract_shop_name
RECURSIVE KeepParts(_)
KeepParts(parts) ==
    IF parts = <<>> THEN <<>>
    ELSE IF Head(parts) = <<>> THEN KeepParts(Tail(parts))
    ELSE IF 2 * DigitCount(Head(parts)) >= Len(Head(parts)) THEN <<>>
    ELSE <<Head(parts)>> \o KeepParts(Tail(parts))

\* " ".join(result) if result else raw
JoinOrRaw(result, raw) == IF result # <<>> THEN Join(result) ELSE raw

\* the shop name from raw = m.group(1).strip()
ShopFromRaw(raw) == JoinOrRaw(KeepParts(Split(raw)), raw)

\* the shop name from m.group(1), "UNKNOWN_SHOP" without a match
ShopFromMatch(m) == IF m = NoneT THEN UNKNOWN_SHOP ELSE ShopFromRaw(Strip(m))

\* TikTokJTParser._extract_shop_name
extract_shop_name(full_text) == ShopFromMatch(SearchSender(full_text, FALSE))

TikTokJT == "TikTokJTParser"
ShopeeSPX == "ShopeeSPXParser"
ShopeeGHN == "ShopeeGHNParser"
Recognizers == {TikTokJT, ShopeeSPX, ShopeeGHN}

\* TikTokJTParser.can_handle
TikTokCanHandle(full_text, words) == HasJT(full_text) /\ SearchET(full_text)

\* bool(m and m.group(1).upper().startswith(prefix))
UpperStartsWith(m, prefix) == m # NoneT /\ StartsWith(Upper(m), prefix)

\* ShopeeSPXParser.can_handle
SPXCanHandle(full_text, words) ==
    UpperStartsWith(SearchLabel(full_text, RE_DELIVERY), <<"S","P","X">>)

\* can_handle, were the value after the label not looked at
GHNCanHandleAnyValue(full_text, words) == SearchLabel(full_text, RE_DELIVERY) # NoneT

\* ShopeeGHNParser.can_handle
GHNCanHandle(full_text, words) ==
    UpperStartsWith(SearchLabel(full_text, RE_DELIVERY), <<"G","Y">>)

\* parser.can_handle(full_text, words)
CanHandle(parser, full_text, words) ==
    CASE parser = TikTokJT -> TikTokCanHandle(full_text, words)
      [] parser = ShopeeSPX -> SPXCanHandle(full_text, words)
      [] parser = ShopeeGHN -> GHNCanHandle(full_text, words)

\* TikTokJTParser.parse
TikTokParse(page_number, full_text, words) ==
    [ page_number |-> page_number,
      order_sn |-> SearchLabel(full_text, RE_ORDER_ID),
      shop_name |-> extract_shop_name(full_text),
      platform |-> "tiktok",
      delivery_method |-> "JT",
      delivery_method_raw |-> "J&T Express" ]

\* the sub-variant with the express markers tested before the instant markers
SPXRawExpressFirst(txt_upper) ==
    IF \/ Contains(txt_upper, <<"N","H","A","N","H">>)
       \/ Contains(txt_upper, <<"E","X","P","R","E","S","S">>)
    THEN "SPX Express"
    ELSE IF \/ Contains(txt_upper, <<"I","N","S","T","A","N","T">>)
            \/ Contains(txt_upper, <<"T","U_horn_acute","C"," ","T","H","I_grave">>)
         THEN "SPX Instant"
         ELSE "SPX"

\* the sub-variant of an SPX page, from txt_upper = full_text.upper()
SPXRawOf(txt_upper) ==
    IF \/ Contains(txt_upper, <<"I","N","S","T","A","N","T">>)
       \/ Contains(txt_upper, <<"T","U_horn_acute","C"," ","T","H","I_grave">>)
    THEN "SPX Instant"
    ELSE IF \/ Contains(txt_upper, <<"N","H","A","N","H">>)
            \/ Contains(txt_upper, <<"E","X","P","R","E","S","S">>)
         THEN "SPX Express"
         ELSE "SPX"

\* the sub-variant of an SPX page
SPXRaw(full_text) == SPXRawOf(Upper(full_text))

\* ShopeeSPXParser.parse
SPXParse(page_number, full_text, words) ==
    [ page_number |-> page_number,
      order_sn |-> SearchLabel(full_text, RE_ORDER),
      shop_name |-> extract_shop_from_tu_den(words),
      platform |-> "shopee",
      delivery_method |-> "SPX",
      delivery_method_raw |-> SPXRaw(full_text) ]

\* an exception leaving parse()
Raised == [raised |-> TRUE]

\* ShopeeGHNParser.parse reading m_order.group(1) without `if m_order`
GHNParseUnguarded(page_number, full_text, words) ==
    IF SearchLabel(full_text, RE_ORDER) = NoneT THEN Raised
    ELSE [ page_number |-> page_number,
           order_sn |-> SearchLabel(full_text, RE_ORDER),
           shop_name |-> extract_shop_from_tu_den(words),
           platform |-> "shopee",
           delivery_method |-> "GHN",
           delivery_method_raw |-> "Giao Hang Nhanh" ]

\* ShopeeGHNParser.parse
GHNParse(page_number, full_text, words) ==
    [ page_number |-> page_number,
      order_sn |-> SearchLabel(full_text, RE_ORDER),
      shop_name |-> extract_shop_from_tu_den(words),
      platform |-> "shopee",
      delivery_method |-> "GHN",
      delivery_method_raw |-> "Giao Hang Nhanh" ]

\* parser.parse(page_number, full_text, words, page)
Parse(parser, page_number, full_text, words) ==
    CASE parser = TikTokJT -> TikTokParse(page_number, full_text, words)
      [] parser = ShopeeSPX -> SPXParse(page_number, full_text, words)
      [] parser = ShopeeGHN -> GHNParse(page_number, full_text, words)

\* the chain with the Shopee parsers registered before the TikTok parser
ShopeeFirstParsers == <<ShopeeSPX, ShopeeGHN, TikTokJT>>

\* the chain as the module is imported
DefaultParsers == <<TikTokJT, ShopeeSPX, ShopeeGHN>>

\* dispatch_page from the k-th parser of the chain on; `consulted` lists the
\* parsers whose can_handle() has been called, `parsed` those whose parse() has
RECURSIVE DispatchFrom(_, _, _, _, _, _)
DispatchFrom(chain, k, page_number, full_text, words, consulted) ==
    IF k > Len(chain)
    THEN [consulted |-> consulted, parsed |-> <<>>, result |-> NoneR]
    ELSE IF CanHandle(chain[k], full_text, words)
         THEN [ consulted |-> Append(consulted, chain[k]),
                parsed |-> <<chain[k]>>,
                result |-> Parse(chain[k], page_number, full_text, words) ]
         ELSE DispatchFrom(chain, k + 1, page_number, full_text, words,
                           Append(consulted, chain[k]))

\* dispatch_page without the `return` inside the loop: every parser is
\* consulted and the last one that can handle the page has the last word
RECURSIVE DispatchNoReturnFrom(_, _, _, _, _, _)
DispatchNoReturnFrom(chain, k, page_number, full_text, words, acc) ==
    IF k > Len(chain) THEN acc
    ELSE IF CanHandle(chain[k], full_text, words)
         THEN DispatchNoReturnFrom(chain, k + 1, page_number, full_text, words,
                  [ consulted |-> Append(acc.consulted, chain[k]),
                    parsed |-> Append(acc.parsed, chain[k]),
                    result |-> Parse(chain[k], page_number, full_text, words) ])
         ELSE DispatchNoReturnFrom(chain, k + 1, page_number, full_text, words,
                  [acc EXCEPT !.consulted = Append(acc.consulted, chain[k])])

dispatch_page_no_return(chain, page_number, full_text, words) ==
    DispatchNoReturnFrom(chain, 1, page_number, full_text, words,
        [consulted |-> <<>>, parsed |-> <<>>, result |-> NoneR])

\* the last parser of the chain parses the page when d claims nobody did
FallThrough(d, chain, page_number, full_text, words) ==
    IF d.parsed = <<>> /\ chain # <<>>
    THEN [ consulted |-> d.consulted,
           parsed |-> <<chain[Len(chain)]>>,
           result |-> Parse(chain[Len(chain)], page_number, full_text, words) ]
    ELSE d

\* dispatch_page ending in `return parser.parse(...)` instead of `return None`:
\* a page nobody claims is parsed by the last parser of the chain
dispatch_page_fall_through(chain, page_number, full_text, words) ==
    FallThrough(DispatchFrom(chain, 1, page_number, full_text, words, <<>>),
                chain, page_number, full_text, words)

\* dispatch_page(page_number, full_text, words, page) over the chain
dispatch_page(chain, page_number, full_text, words) ==
    DispatchFrom(chain, 1, page_number, full_text, words, <<>>)

-----------------------------------------------------------------------------
(* scan_pdf.scan_pdf_for_orders: the body of the loop over the pages *)

DEN_VTP == <<"D_stroke","e_circ_acute","n">>
TU_VTP == <<"T","u_horn_grave">>

\* lines 41-56: the carrier code from delivery_id; `prev` is the value the
\* local delivery_method holds when the page is reached (no branch may assign it)
MethodOf(delivery_id, full_text, prev) ==
    IF TruthyT(delivery_id)
    THEN IF StartsWith(delivery_id, <<"S","P","X">>) THEN "SPX"
         ELSE IF StartsWith(delivery_id, <<"G","Y">>) THEN "GHN"
         ELSE IF StartsWith(delivery_id,
                     <<"S","H","O","P","E","E","V","T","P","V","N">>) THEN "VTP"
         ELSE IF StartsWith(delivery_id, <<"E","K">>) THEN "VNP"
         ELSE prev
    ELSE IF HasJT(full_text) THEN "JT"
    ELSE "HT"

\* lines 34-56: the carrier code of the page
ScanDeliveryMethod(full_text, prev) ==
    MethodOf(SearchLabel(full_text, RE_DELIVERY), full_text, prev)

\* line 58: m1 or re.search(Order ID pattern)
OrOrderId(m1, full_text) ==
    IF m1 # NoneT THEN m1 ELSE SearchLabel(full_text, RE_ORDER_ID)

\* lines 58-59: the order identifier of the page
ScanOrderId(full_text) == OrOrderId(SearchLabel(full_text, RE_ORDER), full_text)

\* lines 80-86: the loop `for part in shop_parts`
RECURSIVE ScanKeepParts(_)
ScanKeepParts(parts) ==
    IF parts = <<>> THEN <<>>
    ELSE IF Len(Head(parts)) = 0 \/ 2 * DigitCount(Head(parts)) < Len(Head(parts))
         THEN <<Head(parts)>> \o ScanKeepParts(Tail(parts))
         ELSE <<>>

\* line 88: filtered_parts if filtered_parts else [shop_name_raw]
PartsOrRaw(filtered_parts, shop_name_raw) ==
    IF filtered_parts # <<>> THEN filtered_parts ELSE <<shop_name_raw>>

\* lines 74-88: shop_words from shop_name_raw
ScanShopFromRaw(shop_name_raw) ==
    PartsOrRaw(ScanKeepParts(Split(shop_name_raw)), shop_name_raw)

\* lines 73-90: shop_words from the match of the sender pattern
ScanShopFromMatch(shop_match) ==
    IF shop_match # NoneT THEN ScanShopFromRaw(Strip(shop_match)) ELSE <<UNKNOWN_SHOP>>

\* lines 68-90: shop_words of a J&T page
ScanJTShopWords(full_text) == ScanShopFromMatch(SearchSender(full_text, TRUE))

\* lines 120-127: the loop `for w in words` from word k on
RECURSIVE ScanShopWordsFrom(_, _, _, _, _)
ScanShopWordsFrom(words, k, den_x0, tu_y1, found_line) ==
    IF k > Len(words) THEN <<>>
    ELSE IF tu_y1 < words[k].top /\ words[k].top < tu_y1 + 20
         THEN IF words[k].x0 < den_x0
              THEN <<words[k].text>> \o ScanShopWordsFrom(words, k + 1, den_x0, tu_y1, TRUE)
              ELSE IF found_line THEN <<>>
              ELSE ScanShopWordsFrom(words, k + 1, den_x0, tu_y1, found_line)
         ELSE ScanShopWordsFrom(words, k + 1, den_x0, tu_y1, found_line)

\* lines 118-129: shop_words after step 3, entered with shop_words0
ScanStep3(words, den_x0, tu_y1, method, shop_words0) ==
    IF TruthyN(den_x0) /\ TruthyN(tu_y1)
    THEN shop_words0 \o ScanShopWordsFrom(words, 1, den_x0, tu_y1, FALSE)
    ELSE IF method # "JT" /\ shop_words0 = <<>>
         THEN <<UNKNOWN_SHOP>>
         ELSE shop_words0

\* lines 92-116: the word holding the anchor, 0 without one (J&T looks for none)
ScanAnchor(words, method, vtpMarker, marker) ==
    IF method = "JT" THEN 0
    ELSE FirstWith(words, IF method = "VTP" THEN vtpMarker ELSE marker)

\* lines 61-131: shop_name of the page, given its carrier code
ScanShopName(full_text, words, method) ==
    Strip(Join(ScanStep3(words,
                         AnchorX0(words, ScanAnchor(words, method, DEN_VTP, DEN)),
                         AnchorBottom(words, ScanAnchor(words, method, TU_VTP, TU)),
                         method,
                         IF method = "JT" THEN ScanJTShopWords(full_text) ELSE <<>>)))

\* lines 136-144 under `enumerate(pdf.pages)` without start=1: pages count from 0
ScanAppendZeroBased(n, order_id, shop_name, method) ==
    IF TruthyT(order_id)
    THEN << [ page |-> n - 1,
              order_sn |-> order_id,
              shop_name |-> shop_name,
              platform |-> PyNone,
              delivery_method |-> method,
              delivery_method_raw |-> method ] >>
    ELSE <<>>

\* lines 136-144: the rows the iteration appends (none or one)
ScanAppend(n, order_id, shop_name, method) ==
    IF TruthyT(order_id)
    THEN << [ page |-> n,
              order_sn |-> order_id,
              shop_name |-> shop_name,
              platform |-> PyNone,
              delivery_method |-> method,
              delivery_method_raw |-> method ] >>
    ELSE <<>>

\* lines 58-144, entered with delivery_method holding `method`
ScanRest(page, n, method) ==
    IF method = Unbound
    THEN [raised |-> TRUE, method |-> method, append |-> <<>>]
    ELSE [ raised |-> FALSE,
           method |-> method,
           append |-> ScanAppend(n, ScanOrderId(page.text),
                                 ScanShopName(page.text, page.words, method), method) ]

\* lines 32-144: one iteration of the loop, on page number n, entered with the
\* local delivery_method holding `prev`.  raised: an exception leaves the
\* function (extraction raised, or delivery_method is read while unbound);
\* method: the value delivery_method holds after the iteration; append: the
\* rows the iteration appends (none or one)
ScanIteration(page, n, prev) ==
    IF page.bad
    THEN [raised |-> TRUE, method |-> prev, append |-> <<>>]
    ELSE ScanRest(page, n, ScanDeliveryMethod(page.text, prev))

\* scan_pdf_for_orders(d) as one value: how the call ends and the rows built
RECURSIVE ScanFrom(_, _, _, _)
RECURSIVE ScanAfter(_, _, _, _)
ScanAfter(d, k, rs, it) ==
    IF it.raised THEN [status |-> "raised", rows |-> rs]
    ELSE ScanFrom(d, k + 1, rs \o it.append, it.method)

ScanFrom(d, k, rs, method) ==
    IF k > Len(d) THEN [status |-> "returned", rows |-> rs]
    ELSE ScanAfter(d, k, rs, ScanIteration(d[k], k, method))

ScanRun(d) == ScanFrom(d, 1, <<>>, Unbound)

-----------------------------------------------------------------------------
(* The pages the page source yields *)

NL == <<"\n">>
SP == <<" ">>
T_MVD == <<"M","a_tilde"," ","v","a_circ_dot","n"," ","d_stroke","o_horn","n",":"," ">>
T_MDH == <<"M","a_tilde"," ","d_stroke","o_horn","n"," ","h","a_grave","n","g",":"," ">>
T_OID == <<"O","r","d","e","r"," ","I","D",":"," ">>
T_JT == <<"J","&","T"," ","E","T"," ">>
T_NG == <<"N","g","u_horn","o_horn_grave","i"," ","g","u_horn_hook","i">>

Word(text, x0, top, bottom) == [text |-> text, x0 |-> x0, top |-> top, bottom |-> bottom]
Page(text, words) == [text |-> text, words |-> words, bad |-> FALSE]

W_TU == Word(TU, 10, 100, 110)
W_DEN == Word(DEN, 200, 100, 110)
W_SHOP == Word(<<"S","h","o","p">>, 10, 115, 125)
W_ABC == Word(<<"A","B","C">>, 40, 115, 125)
W_BOB == Word(<<"B","o","b">>, 200, 115, 125)

\* scenario 1: an SPX label with its order code and the two-column sender block
PageSPX ==
    Page(T_MVD \o <<"S","P","X","1">> \o NL \o T_MDH \o <<"O","1">>,
         <<W_TU, W_DEN, W_SHOP, W_ABC, W_BOB>>)
\* scenario 2: a GHN label without an order code
PageGHNNoOrder == Page(T_MVD \o <<"G","Y","1">>, <<W_TU, W_DEN, W_SHOP>>)
\* scenario 4: none of the markers
PageNoMarker == Page(<<"h","i">>, <<>>)
\* an order code and no carrier marker
PageNoMarkerOrder == Page(T_MDH \o <<"O","2">>, <<>>)
\* a J&T label
PageJT ==
    Page(T_JT \o T_OID \o <<"T","1">> \o NL \o T_NG \o NL \o <<"M","y">> \o NL \o <<"1">>,
         <<>>)
\* a page carrying the J&T markers and an SPX delivery code
PageJTSPX ==
    Page(T_JT \o T_MVD \o <<"S","P","X","2">> \o SP \o T_MDH \o <<"O","3">>,
         <<W_TU, W_DEN, W_SHOP>>)
\* a Viettel Post delivery code
PageVTP ==
    Page(T_MVD \o <<"S","H","O","P","E","E","V","T","P","V","N","1">> \o SP
            \o T_MDH \o <<"O","4">>, <<>>)
\* an SPX delivery code in lower case
PageLowerSPX == Page(T_MVD \o <<"s","p","x","1">> \o SP \o T_MDH \o <<"O","5">>, <<>>)
\* a page whose extraction raises
PageBad == [text |-> <<>>, words |-> <<>>, bad |-> TRUE]
\* an SPX label with both anchors and nothing on the line below
PageSPXEmptyWindow ==
    Page(T_MVD \o <<"S","P","X","3">> \o SP \o T_MDH \o <<"O","6">>, <<W_TU, W_DEN>>)
\* a J&T label whose sender label is followed by a blank and a line break
PageJTBlankShop ==
    Page(T_JT \o T_OID \o <<"T","2">> \o SP \o T_NG \o SP \o NL \o <<"S">>, <<>>)
\* scenario 3: "Order ID:" and the sender block, no J&T marker
PageOrderIdOnly ==
    Page(T_OID \o <<"T","9">> \o NL \o T_NG \o NL \o <<"M","y">> \o NL
            \o <<"1"," ","A">>, <<>>)
\* a J&T label without an order id
PageJTNoOrder == Page(T_JT, <<>>)
\* an SPX label without an order code
PageSPXNoOrder == Page(T_MVD \o <<"S","P","X","4">>, <<W_TU, W_DEN, W_SHOP>>)
\* a page carrying the J&T markers and a GHN delivery code
PageJTGHN ==
    Page(T_JT \o T_MVD \o <<"G","Y","2">> \o SP \o T_MDH \o <<"O","7">>, <<>>)
\* J&T labels whose sender line holds digit characters that are not 0-9: a
\* word that is half digits between two words, a word of digits first
PageJTSup ==
    Page(T_JT \o T_OID \o <<"T","2">> \o NL \o T_NG \o NL
            \o <<"M","y"," ","sup_2","a"," ","S","h","o","p">> \o NL \o <<"1">>, <<>>)
PageJTSupFirst ==
    Page(T_JT \o T_OID \o <<"T","3">> \o NL \o T_NG \o NL
            \o <<"sup_2","sup_2"," ","S","h","o","p">> \o NL \o <<"1">>, <<>>)
\* the same with a word that is one third digits
PageJTSupKept ==
    Page(T_JT \o T_OID \o <<"T","4">> \o NL \o T_NG \o NL
            \o <<"M","y"," ","a","sup_2","b"," ","S","h","o","p">> \o NL \o <<"1">>, <<>>)

\* SPX labels with sub-variant markers: "Instant", "NHANH", "express" before
\* "INSTANT", "tuc thi" (with its Vietnamese letters) in lower case, "Express"
PageSPXInstant ==
    Page(T_MVD \o <<"S","P","X","5">> \o NL \o <<"I","n","s","t","a","n","t">>, <<>>)
PageSPXNhanh ==
    Page(T_MVD \o <<"S","P","X","6">> \o NL \o <<"N","H","A","N","H">>, <<>>)
PageSPXBoth ==
    Page(T_MVD \o <<"S","P","X","7">> \o NL \o <<"e","x","p","r","e","s","s">> \o SP
            \o <<"I","N","S","T","A","N","T">>, <<>>)
PageSPXTucThi ==
    Page(<<"t","u_horn_acute","c"," ","t","h","i_grave">> \o NL
            \o T_MVD \o <<"S","P","X","8">>, <<>>)
PageSPXExpress ==
    Page(T_MVD \o <<"S","P","X","9">> \o NL \o <<"E","x","p","r","e","s","s">>, <<>>)

\* the pages handed to dispatch_page besides those of the documents
VariantPages ==
    { PageSPXInstant, PageSPXNhanh, PageSPXBoth, PageSPXTucThi, PageSPXExpress,
      PageJTSupFirst, PageJTSupKept }

Pages ==
    { PageSPX, PageGHNNoOrder, PageNoMarker, PageNoMarkerOrder, PageJT, PageJTSPX,
      PageVTP, PageLowerSPX, PageBad, PageSPXEmptyWindow, PageJTBlankShop,
      PageOrderIdOnly, PageJTNoOrder, PageSPXNoOrder, PageJTGHN, PageJTSup }

\* the documents: every sequence of at most MaxPages pages
Documents == UNION {[1..n -> Pages] : n \in 0..MaxPages}

-----------------------------------------------------------------------------
(* app.api_print and the tables of database.py *)

Threads == 1..MaxThreads

\* the uploaded files, by name, with the document each holds
FileDocs ==
    [ a_pdf |-> <<PageSPX, PageSPX>>,
      b_pdf |-> <<PageSPX, PageNoMarkerOrder>>,
      c_pdf |-> <<PageNoMarker>> ]

Filenames == DOMAIN FileDocs

\* fo.platform or "unknown"
OrUnknownPlatform(platform) == IF platform = PyNone THEN "unknown" ELSE platform

\* app.py lines 517-527: the dict made of one FileOrder row, here of one scanned row
FileOrderDict(row) ==
    [ order_sn |-> row.order_sn,
      shop_name |-> row.shop_name,
      platform |-> OrUnknownPlatform(row.platform),
      delivery_method |-> row.delivery_method,
      delivery_method_raw |-> row.delivery_method_raw,
      page |-> row.page ]

DictsOf(rs) == [k \in 1..Len(rs) |-> FileOrderDict(rs[k])]

\* table file_orders as api_upload fills it: the rows scanned from each file
FileOrders == [f \in Filenames |-> DictsOf(ScanRun(FileDocs[f]).rows)]

\* a worker thread that serves no request
IdleRequest == [pc |-> "idle"]

\* request.get_json(): filename, copies, is_reprint, reprint_reason
PrintRequest(filename, copies, is_reprint, reprint_reason) ==
    [ filename |-> filename, copies |-> copies,
      is_reprint |-> is_reprint, reprint_reason |-> reprint_reason ]

\* the requests the server is sent: first prints and reprints of the uploaded
\* files with and without a reason, one or more copies, no name, a file not on disk
PrintRequests ==
    { PrintRequest("a_pdf", 1, FALSE, ""),
      PrintRequest("a_pdf", 2, TRUE, "jam"),
      PrintRequest("a_pdf", 1, TRUE, ""),
      PrintRequest("b_pdf", 2, FALSE, ""),
      PrintRequest("b_pdf", 0, TRUE, "jam"),
      PrintRequest("c_pdf", 1, FALSE, ""),
      PrintRequest("", 1, FALSE, ""),
      PrintRequest("gone_pdf", 1, FALSE, "") }

\* the most copies a request asks for
MaxCopies == 2

\* save_jobs(jobs[:200])
JobLogCap == 200

\* add_job has not been called
NoJob == [none |-> TRUE]

\* lines 476-489: the request is read; 400 without a name, 404 without the file
Received(filename, copies, is_reprint, reprint_reason, now) ==
    [ pc |-> IF filename \in Filenames THEN "check" ELSE "done",
      filename |-> filename,
      copies |-> copies,
      is_reprint |-> is_reprint,
      reprint_reason |-> reprint_reason,
      received |-> now,
      orders_info |-> <<>>,
      results |-> <<>>,
      success |-> FALSE,
      db_job |-> <<>>,
      new |-> <<>>,
      dirty |-> <<>>,
      response |-> IF filename = "" THEN 400
                   ELSE IF filename \notin Filenames THEN 404 ELSE 0 ]

\* the first free thread takes a POST /api/print
Receive(t, filename, copies, is_reprint, reprint_reason) ==
    /\ requests[t].pc = "idle"
    /\ \A u \in Threads : u < t => requests[u].pc # "idle"
    /\ clock < MaxPrints
    /\ clock' = clock + 1
    /\ requests' = [requests EXCEPT
           ![t] = Received(filename, copies, is_reprint, reprint_reason, clock + 1)]
    /\ UNCHANGED <<print_jobs, order_prints, jobs, spooled>>
    /\ UNCHANGED <<callVars, earlier, uploadVars, job>>

\* lines 493-498: the successful print jobs of the file
PrevCount(table, filename) ==
    Cardinality({id \in 1..Len(table) :
                    table[id].filename = filename /\ table[id].status = "success"})

\* lines 499-510: 409 for a file printed before unless is_reprint, 400 for a
\* reprint without a reason
Checked(r, prev_count) ==
    IF prev_count > 0 /\ ~r.is_reprint
    THEN [r EXCEPT !.pc = "done", !.response = 409]
    ELSE IF r.is_reprint /\ r.reprint_reason = ""
         THEN [r EXCEPT !.pc = "done", !.response = 400]
         ELSE [r EXCEPT !.pc = "orders"]

\* lines 491-510: the server-side validation, in a session of its own
CheckPrev(t) ==
    /\ requests[t].pc = "check"
    /\ requests' = [requests EXCEPT
           ![t] = Checked(requests[t], PrevCount(print_jobs, requests[t].filename))]
    /\ UNCHANGED <<print_jobs, order_prints, jobs, spooled, clock>>
    /\ UNCHANGED <<callVars, earlier, uploadVars, job>>

\* lines 512-546: orders_info, from the FileOrder rows of the file
LoadOrders(t) ==
    /\ requests[t].pc = "orders"
    /\ requests' = [requests EXCEPT
           ![t] = [@ EXCEPT !.pc = "print",
                            !.orders_info = FileOrders[requests[t].filename]]]
    /\ UNCHANGED <<print_jobs, order_prints, jobs, spooled, clock>>
    /\ UNCHANGED <<callVars, earlier, uploadVars, job>>

\* max(1, copies)
Rounds(copies) == IF copies > 1 THEN copies ELSE 1

\* n print commands for one file
Commands(filename, n) == [k \in 1..n |-> filename]

\* the loop, were it to go on after a call that returned False
PrintLoopNoBreak(outcomes, k, n) == SubSeq(outcomes, k, n)

\* lines 554-557: `for _ in range(max(1, copies))` from round k on, outcomes[k]
\* being what print_pdf_printer returns in round k: the values the calls made
\* returned, the loop ending at the first False
RECURSIVE PrintLoop(_, _, _)
PrintLoop(outcomes, k, n) ==
    IF k > n THEN <<>>
    ELSE IF ~outcomes[k] THEN <<FALSE>>
    ELSE <<TRUE>> \o PrintLoop(outcomes, k + 1, n)

\* the calls that returned True
Sent(results) == Cardinality({k \in 1..Len(results) : results[k]})

\* success: True unless a call returned False
AllSent(results) == \A k \in 1..Len(results) : results[k]

\* lines 553-557: the print commands are given to the printer; the calls
\* that return True have reached the spooler
SendCopies(t, outcomes) ==
    /\ requests[t].pc = "print"
    /\ spooled' = spooled \o
           Commands(requests[t].filename,
                    Sent(PrintLoop(outcomes, 1, Rounds(requests[t].copies))))
    /\ requests' = [requests EXCEPT
           ![t] = [@ EXCEPT
               !.pc = "record",
               !.results = PrintLoop(outcomes, 1, Rounds(requests[t].copies)),
               !.success = AllSent(PrintLoop(outcomes, 1, Rounds(requests[t].copies)))]]
    /\ UNCHANGED <<print_jobs, order_prints, jobs, clock>>
    /\ UNCHANGED <<callVars, earlier, uploadVars, job>>

PrintInit ==
    /\ print_jobs = <<>>
    /\ order_prints = <<>>
    /\ jobs = <<>>
    /\ spooled = <<>>
    /\ requests = [t \in Threads |-> IdleRequest]
    /\ clock = 0
    /\ job = NoJob

\* lines 567-576: the PrintJob the session is given
NewPrintJob(r) ==
    [ filename |-> r.filename,
      copies |-> r.copies,
      is_reprint |-> r.is_reprint,
      reprint_reason |-> IF r.is_reprint THEN r.reprint_reason ELSE PyNone,
      status |-> IF r.success THEN "success" ELSE "error",
      print_time_utc |-> r.received ]

\* lines 589-599: the OrderPrint the session is given for an order not found
NewOrderPrint(order, filename, now_utc) ==
    [ filename |-> filename,
      order_sn |-> order.order_sn,
      shop_name |-> order.shop_name,
      platform |-> order.platform,
      delivery_method |-> order.delivery_method,
      delivery_method_raw |-> order.delivery_method_raw,
      page_number |-> order.page,
      print_count |-> 1,
      last_print_time_utc |-> now_utc ]

\* lines 581-583: the rows the query for order_sn selects.  The session is
\* made with autoflush=False (database.py:31): the query runs on the rows
\* committed when the transaction took its snapshot, and objects the session
\* was given with db.add() since are not among them
Selected(snapshot, order_sn) ==
    {id \in 1..Len(snapshot) : snapshot[id].order_sn = order_sn}

\* the object the session holds for row id: the one it has loaded and changed
\* before, or else the row as selected
Loaded(snapshot, dirty, id) == IF id \in DOMAIN dirty THEN dirty[id] ELSE snapshot[id]

\* lines 585-587
Touched(existing_op, filename, now_utc) ==
    [existing_op EXCEPT !.print_count = @ + 1,
                        !.last_print_time_utc = now_utc,
                        !.filename = filename]

\* lines 581-599: one iteration of `for order in orders_info`, ids being the
\* rows selected; acc holds the objects added (new) and changed (dirty) so far
RecordOrder(snapshot, order, ids, acc, filename, now_utc) ==
    IF ids # {}
    THEN [acc EXCEPT !.dirty =
             (Min(ids) :> Touched(Loaded(snapshot, acc.dirty, Min(ids)), filename, now_utc))
                 @@ acc.dirty]
    ELSE [acc EXCEPT !.new = Append(acc.new, NewOrderPrint(order, filename, now_utc))]

\* lines 580-599: the loop from order k on
RECURSIVE RecordOrders(_, _, _, _, _, _)
RecordOrders(snapshot, orders, k, acc, filename, now_utc) ==
    IF k > Len(orders) THEN acc
    ELSE RecordOrders(snapshot, orders, k + 1,
             RecordOrder(snapshot, orders[k], Selected(snapshot, orders[k].order_sn),
                         acc, filename, now_utc),
             filename, now_utc)

\* lines 566-599: what the session holds when the body of the with block ends
Recorded(r, snapshot) ==
    IF r.success /\ r.orders_info # <<>>
    THEN RecordOrders(snapshot, r.orders_info, 1, [new |-> <<>>, dirty |-> <<>>],
                      r.filename, r.received)
    ELSE [new |-> <<>>, dirty |-> <<>>]

\* r with the pending objects of its session
WithPending(r, acc) ==
    [r EXCEPT !.pc = "commit", !.db_job = <<NewPrintJob(r)>>,
              !.new = acc.new, !.dirty = acc.dirty]

\* lines 565-599: the body of `with get_session() as db`, up to the commit
RecordJob(t) ==
    /\ requests[t].pc = "record"
    /\ requests' = [requests EXCEPT
           ![t] = WithPending(requests[t], Recorded(requests[t], order_prints))]
    /\ UNCHANGED <<print_jobs, order_prints, jobs, spooled, clock>>
    /\ UNCHANGED <<callVars, earlier, uploadVars, job>>

\* the UPDATEs of a flush: the changed columns of the changed rows
Flushed(table, dirty) ==
    [id \in 1..Len(table) |->
        IF id \in DOMAIN dirty
        THEN [table[id] EXCEPT !.print_count = dirty[id].print_count,
                               !.last_print_time_utc = dirty[id].last_print_time_utc,
                               !.filename = dirty[id].filename]
        ELSE table[id]]

\* database.get_session: db.commit() when the body ended without an exception
Commit(t) ==
    /\ requests[t].pc = "commit"
    /\ print_jobs' = print_jobs \o requests[t].db_job
    /\ order_prints' = Flushed(order_prints, requests[t].dirty) \o requests[t].new
    /\ requests' = [requests EXCEPT
           ![t] = [@ EXCEPT !.pc = "log", !.db_job = <<>>, !.new = <<>>, !.dirty = <<>>]]
    /\ UNCHANGED <<jobs, spooled, clock>>
    /\ UNCHANGED <<callVars, earlier, uploadVars, job>>

\* jobs[-200:], the cut taken from the other end
CappedOldest(list) ==
    SubSeq(list, IF Len(list) < JobLogCap THEN 1 ELSE Len(list) - JobLogCap + 1, Len(list))

\* jobs[:200]
Capped(list) == SubSeq(list, 1, IF Len(list) < JobLogCap THEN Len(list) ELSE JobLogCap)

\* lines 87-94: the record add_job makes; id stands for the uuid it draws
NewJob(id, filename, job_status, reprint) ==
    [id |-> id, filename |-> filename, status |-> job_status, reprint |-> reprint]

\* app.add_job: the record is put first and the log cut to its newest 200
AddedJob(log, new_job) == Capped(<<new_job>> \o log)

\* lines 603-618: the job log is written and the response made
LogJob(t) ==
    /\ requests[t].pc = "log"
    /\ job' = NewJob(requests[t].received, requests[t].filename,
                      IF requests[t].success THEN "success" ELSE "error",
                      requests[t].is_reprint)
    /\ jobs' = AddedJob(jobs, job')
    /\ requests' = [requests EXCEPT
           ![t] = [@ EXCEPT !.pc = "done",
                            !.response = IF requests[t].success THEN 200 ELSE 500]]
    /\ UNCHANGED <<print_jobs, order_prints, spooled, clock>>
    /\ UNCHANGED <<callVars, earlier, uploadVars>>

\* the response is sent and the thread is free again
Respond(t) ==
    /\ requests[t].pc = "done"
    /\ requests' = [requests EXCEPT ![t] = IdleRequest]
    /\ UNCHANGED <<print_jobs, order_prints, jobs, spooled, clock>>
    /\ UNCHANGED <<callVars, earlier, uploadVars, job>>

NextPrint ==
    \/ \E t \in Threads, q \in PrintRequests :
          Receive(t, q.filename, q.copies, q.is_reprint, q.reprint_reason)
    \/ \E t \in Threads : CheckPrev(t)
    \/ \E t \in Threads : LoadOrders(t)
    \/ \E t \in Threads, outcomes \in [1..MaxCopies -> BOOLEAN] : SendCopies(t, outcomes)
    \/ \E t \in Threads : RecordJob(t)
    \/ \E t \in Threads : Commit(t)
    \/ \E t \in Threads : LogJob(t)
    \/ \E t \in Threads : Respond(t)

\* a call add_job(filename, printer, status, message), the call-th of all
AddJob(call, filename, job_status) ==
    /\ clock < MaxJobs
    /\ call = clock + 1
    /\ clock' = call
    /\ job' = NewJob(call, filename, job_status, FALSE)
    /\ jobs' = AddedJob(jobs, job')
    /\ UNCHANGED <<print_jobs, order_prints, spooled, requests>>
    /\ UNCHANGED <<callVars, earlier, uploadVars>>

NextJobs == \E call \in 1..MaxJobs : AddJob(call, "a_pdf", "success")

-----------------------------------------------------------------------------
(* app.api_upload and database.get_session *)

\* no upload is being served
IdleUpload == [pc |-> "idle"]

\* the names files are uploaded under; ALLOWED_EXT lets the PDF files in
UploadNames == Filenames \cup {"notes_txt"}

\* the seconds of the clock the uploads are stamped with
Timestamps == 1..2

\* the latest upload_time_utc of the table, 0 when it is empty
LastUpload(table) == Max({0} \cup {table[k].upload_time_utc : k \in 1..Len(table)})

\* scan_pdf_for_orders(str(dest)) of each of the files
Scans == [f \in Filenames |-> ScanRun(FileDocs[f])]

\* lines 221-228: scanned_orders, [] when the scan raises or finds nothing
ScannedOrders(run) == IF run.status = "returned" THEN run.rows ELSE <<>>

\* lines 233-239: the UploadedFile the session is given; its id is set by the flush
NewUploadedFile(id, unique_name, original_name, now_utc) ==
    [ id |-> id, filename |-> unique_name, original_name |-> original_name,
      upload_time_utc |-> now_utc ]

\* lines 244-253: the FileOrder the session is given for one scanned order
NewFileOrder(uf_id, unique_name, order) ==
    [ uploaded_file_id |-> uf_id,
      filename |-> unique_name,
      order_sn |-> order.order_sn,
      shop_name |-> order.shop_name,
      platform |-> order.platform,
      delivery_method |-> order.delivery_method,
      delivery_method_raw |-> order.delivery_method_raw,
      page_number |-> order.page ]

\* lines 243-253: the loop `for order in scanned_orders`
NewFileOrders(uf_id, unique_name, orders) ==
    [k \in 1..Len(orders) |-> NewFileOrder(uf_id, unique_name, orders[k])]

\* lines 200-232: the file is checked, stored under a name unique to the
\* second and scanned; then `with get_session() as db` opens a session
Uploading(id, original_name, now_utc) ==
    [ pc |-> "add_file",
      id |-> id,
      original_name |-> original_name,
      unique_name |-> <<now_utc, original_name>>,
      now_utc |-> now_utc,
      scanned_orders |-> ScannedOrders(Scans[original_name]),
      flushed |-> <<>>,
      pending |-> <<>>,
      raised |-> FALSE,
      commits |-> 0,
      rollbacks |-> 0,
      closed |-> FALSE,
      response |-> 0 ]

\* a POST /api/upload is received
ReceiveUpload(original_name, now_utc) ==
    /\ upload.pc = "idle"
    /\ clock < MaxUploads
    /\ now_utc >= LastUpload(uploaded_files)
    /\ clock' = clock + 1
    /\ upload' = IF original_name \in Filenames
                 THEN Uploading(clock + 1, original_name, now_utc)
                 ELSE [pc |-> "done", response |-> 400]
    /\ UNCHANGED <<uploaded_files, file_orders>>
    /\ UNCHANGED <<callVars, earlier, print_jobs, order_prints, jobs, spooled, requests, job>>

\* the INSERT of the flush breaks the unique index of uploaded_files.filename
Duplicate(table, unique_name) == \E k \in 1..Len(table) : table[k].filename = unique_name

\* the committed table after db.flush(), were the session made with autocommit
AfterFlushAutocommit(table, row) == Append(table, row)

\* the committed table after db.flush(): the session is made with
\* autocommit=False (line 31), the row is written inside its transaction and
\* the table others read stays as it is
AfterFlush(table, row) == table

\* lines 233-241: db.add(uf); db.flush().  The flush raises when the name is
\* in the table already, or when the database fails
AddFile(fault) ==
    /\ upload.pc = "add_file"
    /\ IF fault \/ Duplicate(uploaded_files, upload.unique_name)
       THEN /\ upload' = [upload EXCEPT !.pc = "except", !.raised = TRUE]
            /\ UNCHANGED uploaded_files
       ELSE /\ upload' = [upload EXCEPT
                   !.pc = "add_orders",
                   !.flushed = <<NewUploadedFile(upload.id, upload.unique_name,
                                                 upload.original_name, upload.now_utc)>>]
            /\ uploaded_files' =
                   AfterFlush(uploaded_files,
                              NewUploadedFile(upload.id, upload.unique_name,
                                              upload.original_name, upload.now_utc))
    /\ UNCHANGED <<file_orders, clock>>
    /\ UNCHANGED <<callVars, earlier, print_jobs, order_prints, jobs, spooled, requests, job>>

\* lines 243-253: the FileOrder objects are added; the body of the with block ends
AddOrders ==
    /\ upload.pc = "add_orders"
    /\ upload' = [upload EXCEPT
           !.pc = "commit",
           !.pending = NewFileOrders(upload.id, upload.unique_name, upload.scanned_orders)]
    /\ UNCHANGED <<uploaded_files, file_orders, clock>>
    /\ UNCHANGED <<callVars, earlier, print_jobs, order_prints, jobs, spooled, requests, job>>

\* database.py lines 125-126: the body has ended, db.commit().  What the
\* session flushed and what it still holds becomes visible at once, or the
\* commit raises and nothing does
CommitSession(fault) ==
    /\ upload.pc = "commit"
    /\ IF fault
       THEN /\ upload' = [upload EXCEPT !.pc = "except", !.raised = TRUE]
            /\ UNCHANGED <<uploaded_files, file_orders>>
       ELSE /\ upload' = [upload EXCEPT !.pc = "finally", !.commits = @ + 1,
                                        !.flushed = <<>>, !.pending = <<>>]
            /\ uploaded_files' = uploaded_files \o upload.flushed
            /\ file_orders' = file_orders \o upload.pending
    /\ UNCHANGED clock
    /\ UNCHANGED <<callVars, earlier, print_jobs, order_prints, jobs, spooled, requests, job>>

\* database.py lines 127-129: db.rollback(); raise
Rollback ==
    /\ upload.pc = "except"
    /\ upload' = [upload EXCEPT !.pc = "finally", !.rollbacks = @ + 1,
                                !.flushed = <<>>, !.pending = <<>>]
    /\ UNCHANGED <<uploaded_files, file_orders, clock>>
    /\ UNCHANGED <<callVars, earlier, print_jobs, order_prints, jobs, spooled, requests, job>>

\* database.py lines 130-131: db.close(); an exception leaves the with block
\* and api_upload logs it (lines 255-256)
CloseSession ==
    /\ upload.pc = "finally"
    /\ upload' = [upload EXCEPT !.pc = "done", !.closed = TRUE, !.response = 200]
    /\ UNCHANGED <<uploaded_files, file_orders, clock>>
    /\ UNCHANGED <<callVars, earlier, print_jobs, order_prints, jobs, spooled, requests, job>>

\* the response is sent
UploadRespond ==
    /\ upload.pc = "done"
    /\ upload' = IdleUpload
    /\ UNCHANGED <<uploaded_files, file_orders, clock>>
    /\ UNCHANGED <<callVars, earlier, print_jobs, order_prints, jobs, spooled, requests, job>>

UploadInit ==
    /\ uploaded_files = <<>>
    /\ file_orders = <<>>
    /\ upload = IdleUpload

NextUpload ==
    \/ \E original_name \in UploadNames, now_utc \in Timestamps :
          ReceiveUpload(original_name, now_utc)
    \/ \E fault \in BOOLEAN : AddFile(fault)
    \/ AddOrders
    \/ \E fault \in BOOLEAN : CommitSession(fault)
    \/ Rollback
    \/ CloseSession
    \/ UploadRespond

-----------------------------------------------------------------------------
(* The state machine: one caller, one call at a time *)

NoDispatch == [page_number |-> 0, consulted |-> <<>>, parsed |-> <<>>, result |-> NoneR]

\* no call of the shop-name helper by itself
NoHelper == [none |-> TRUE]

\* no earlier scan is remembered
NoCall == [none |-> TRUE]

\* delivery_method is a local of scan_pdf_for_orders: every call has a frame
\* of its own, in which the name is unbound whatever an earlier call left
NewFrameKeeps(prev) == prev

NewFrame(prev) == Unbound

Init ==
    /\ PARSERS = DefaultParsers
    /\ dispatched = NoDispatch
    /\ doc = <<>>
    /\ i = 0
    /\ rows = <<>>
    /\ delivery_method = Unbound
    /\ status = "idle"
    /\ helper = NoHelper
    /\ earlier = NoCall
    /\ PrintInit
    /\ UploadInit

\* the same, with the chain in any order
InitAnyChain ==
    /\ PARSERS \in {c \in [1..3 -> Recognizers] : \A a, b \in 1..3 : a # b => c[a] # c[b]}
    /\ dispatched = NoDispatch
    /\ doc = <<>>
    /\ i = 0
    /\ rows = <<>>
    /\ delivery_method = Unbound
    /\ status = "idle"
    /\ helper = NoHelper
    /\ earlier = NoCall
    /\ PrintInit
    /\ UploadInit

\* a call dispatch_page(n, full_text, words, page) on a page that was extracted
Dispatch(p, n) ==
    /\ status = "idle"
    /\ ~p.bad
    /\ dispatched' = [page_number |-> n, page |-> p]
                        @@ dispatch_page(PARSERS, n, p.text, p.words)
    /\ status' = "dispatched"
    /\ UNCHANGED <<PARSERS, doc, i, rows, delivery_method, helper>>
    /\ UNCHANGED restVars

\* scan_pdf_for_orders(path) is called: rows = [], the document is opened
ScanStart(d) ==
    /\ status = "idle"
    /\ doc' = d
    /\ i' = 1
    /\ rows' = <<>>
    /\ delivery_method' = NewFrame(delivery_method)
    /\ status' = "scanning"
    /\ UNCHANGED <<PARSERS, dispatched, helper>>
    /\ UNCHANGED restVars

\* the effect of one iteration `it` on the locals of the call
ScanStep(it) ==
    /\ delivery_method' = it.method
    /\ rows' = rows \o it.append
    /\ IF it.raised
       THEN status' = "raised" /\ i' = i
       ELSE status' = "scanning" /\ i' = i + 1

\* one iteration of `for i, page in enumerate(pdf.pages, start=1)`
ScanPage ==
    /\ status = "scanning"
    /\ i <= Len(doc)
    /\ ScanStep(ScanIteration(doc[i], i, delivery_method))
    /\ UNCHANGED <<PARSERS, dispatched, doc, helper>>
    /\ UNCHANGED restVars

\* the loop is over: return pd.DataFrame(rows)
ScanReturn ==
    /\ status = "scanning"
    /\ i > Len(doc)
    /\ status' = "returned"
    /\ UNCHANGED <<PARSERS, dispatched, doc, i, rows, delivery_method, helper>>
    /\ UNCHANGED restVars

\* the caller has the value (or the exception) of the call; its frame is gone
CallOver ==
    /\ status \in {"dispatched", "returned", "raised", "extracted"}
    /\ dispatched' = NoDispatch
    /\ helper' = NoHelper
    /\ doc' = <<>>
    /\ i' = 0
    /\ rows' = <<>>
    /\ delivery_method' = NewFrame(delivery_method)
    /\ status' = "idle"
    /\ UNCHANGED PARSERS
    /\ UNCHANGED restVars

Next ==
    \/ \E p \in Pages \cup VariantPages, n \in 1..MaxPages : Dispatch(p, n)
    \/ \E d \in Documents : ScanStart(d)
    \/ ScanPage
    \/ ScanReturn
    \/ CallOver

Spec == Init /\ [][Next]_vars

SpecAnyChain == InitAnyChain /\ [][Next]_vars

\* the print server serving /api/print
SpecPrint == Init /\ [][NextPrint]_vars

\* the print server serving one request at a time: the next request is
\* received when the one before it has been answered
NextPrintSerial ==
    \/ requests[1].pc = "idle" /\ \E q \in PrintRequests :
          Receive(1, q.filename, q.copies, q.is_reprint, q.reprint_reason)
    \/ CheckPrev(1)
    \/ LoadOrders(1)
    \/ requests[1].pc = "print" /\ \E outcomes \in [1..MaxCopies -> BOOLEAN] :
          SendCopies(1, outcomes)
    \/ RecordJob(1)
    \/ Commit(1)
    \/ LogJob(1)
    \/ Respond(1)

SpecPrintSerial == Init /\ [][NextPrintSerial]_vars

\* the server taking uploads
SpecUpload == Init /\ [][NextUpload]_vars

\* a caller of add_job, one call after the other
SpecJobs == Init /\ [][NextJobs]_vars

-----------------------------------------------------------------------------
(* The shop-name helper called by itself on a token list *)

\* tokens on the edges of the window under the anchors W_TU and W_DEN
W_AT == Word(<<"A">>, 10, 110, 120)
W_FAR == Word(<<"F">>, 10, 130, 140)
\* a second left-column anchor lower on the page, a right-column anchor at x0 = 0
W_TU2 == Word(TU, 10, 105, 112)
W_DEN0 == Word(DEN, 0, 100, 110)

Tokens == {W_TU, W_DEN, W_SHOP, W_BOB, W_AT, W_FAR, W_TU2, W_DEN0}

\* the token lists: every sequence of at most MaxWords tokens
WordLists == UNION {[1..n -> Tokens] : n \in 0..MaxWords}

\* a call _extract_shop_from_tu_den(words)
ExtractShop(ws) ==
    /\ status = "idle"
    /\ helper' = [words |-> ws, shop_name |-> extract_shop_from_tu_den(ws)]
    /\ status' = "extracted"
    /\ UNCHANGED <<PARSERS, dispatched, doc, i, rows, delivery_method>>
    /\ UNCHANGED restVars

NextShop ==
    \/ \E ws \in WordLists : ExtractShop(ws)
    \/ CallOver

SpecShop == Init /\ [][NextShop]_vars

\* the tokens of one sender block: the two anchors, two words under the
\* left-column anchor, one under the right-column anchor, one further down
LineTokens == {W_TU, W_DEN, W_SHOP, W_ABC, W_BOB, W_FAR}

\* the token lists of a sender block: every sequence of at most MaxLine of them
LineLists == UNION {[1..n -> LineTokens] : n \in 0..MaxLine}

\* the helper is called only by a caller that is in no other call
NextLine ==
    \/ status = "idle" /\ \E ws \in LineLists : ExtractShop(ws)
    \/ CallOver

SpecLine == Init /\ [][NextLine]_vars

-----------------------------------------------------------------------------
(* A caller that scans documents again and again and keeps one outcome *)

\* the pages of the documents that are scanned repeatedly
TwicePages == {PageSPX, PageLowerSPX, PageGHNNoOrder, PageBad}

TwiceDocuments == UNION {[1..n -> TwicePages] : n \in 0..MaxPages}

\* the caller keeps what the call that has just ended was given and gave back
Remember ==
    /\ status \in {"returned", "raised"}
    /\ earlier = NoCall
    /\ earlier' = [doc |-> doc, status |-> status, rows |-> rows, chain |-> PARSERS]
    /\ UNCHANGED callVars
    /\ UNCHANGED printVars
    /\ UNCHANGED uploadVars
    /\ UNCHANGED job

NextTwice ==
    \/ \E p \in TwicePages, n \in 1..MaxPages : Dispatch(p, n)
    \/ \E d \in TwiceDocuments : ScanStart(d)
    \/ ScanPage
    \/ ScanReturn
    \/ CallOver
    \/ Remember

SpecTwice == Init /\ [][NextTwice]_vars

-----------------------------------------------------------------------------
(* What a finished scan hands to its caller *)

\* the recognized rows: the DataFrame the function returns
Recognized == rows

\* the unrecognized-page diagnostics: the function builds and returns none
Unrecognized == <<>>

-----------------------------------------------------------------------------
(* Properties *)

\* the parsers of the chain that can handle page p, by position
Claimants(chain, p) == {k \in 1..Len(chain) : CanHandle(chain[k], p.text, p.words)}

\* no parser of the default chain claims page p
Unclaimed(p) == ~p.bad /\ Claimants(DefaultParsers, p) = {}

RowsOf(k) == {r \in 1..Len(Recognized) : Recognized[r].page = k}
DiagsOf(k) == {r \in 1..Len(Unrecognized) : Unrecognized[r].page_number = k}

\* C1: dispatch_page returns the parse() result of the first parser in chain
\* order whose can_handle() is true, whatever the order of the chain, and
\* consults no parser after it: can_handle() is called on the parsers up to
\* and including that one, parse() on that one alone.
C1_FirstMatchWins ==
    status = "dispatched" =>
        LET p == dispatched.page
            hits == Claimants(PARSERS, p)
        IN  hits # {} =>
                /\ dispatched.result =
                       Parse(PARSERS[Min(hits)], dispatched.page_number, p.text, p.words)
                /\ dispatched.consulted = SubSeq(PARSERS, 1, Min(hits))
                /\ dispatched.parsed = <<PARSERS[Min(hits)]>>

\* C1 witness: a chain that puts the SPX parser before the TikTok parser has
\* dispatched a page both can handle, and the SPX result came back
C1_Witness ==
    /\ status = "dispatched"
    /\ PARSERS[1] = ShopeeSPX
    /\ Cardinality(Claimants(PARSERS, dispatched.page)) >= 2
    /\ dispatched.result.delivery_method = "SPX"
    /\ dispatched.consulted = <<ShopeeSPX>>

\* C2: a dispatch yields no PageResult (None) exactly when no parser's
\* can_handle() is true for the page; otherwise it yields one PageResult and
\* exactly one parse() has been invoked.
C2_ZeroOrOneResult ==
    status = "dispatched" =>
        LET hits == Claimants(PARSERS, dispatched.page) IN
        /\ dispatched.result = NoneR <=> hits = {}
        /\ hits = {} => dispatched.parsed = <<>>
        /\ hits # {} => Len(dispatched.parsed) = 1

\* C2 witness: a page nobody claims has been dispatched and None came back
C2_Witness ==
    /\ status = "dispatched"
    /\ Claimants(PARSERS, dispatched.page) = {}
    /\ dispatched.result = NoneR
    /\ Len(dispatched.consulted) = 3

\* C3 as claimed: in a finished scan every page no parser claims has exactly
\* one diagnostic {page_number, delivery_method: null, order_sn: null} in the
\* unrecognized list and no recognized row.
C3_Claim ==
    status = "returned" =>
        \A k \in 1..Len(doc) :
            Unclaimed(doc[k]) =>
                /\ Cardinality(DiagsOf(k)) = 1
                /\ \A r \in DiagsOf(k) :
                       /\ Unrecognized[r].delivery_method = PyNone
                       /\ Unrecognized[r].order_sn = NoneT
                /\ RowsOf(k) = {}

\* a parser of the default chain claims page p and finds no order identifier
ClaimedWithoutOrder(p) ==
    /\ ~p.bad
    /\ Claimants(DefaultParsers, p) # {}
    /\ dispatch_page(DefaultParsers, 1, p.text, p.words).result.order_sn = NoneT

\* C4 as claimed: in a finished scan every page a parser claims without
\* finding an order identifier has no recognized row and has a diagnostic with
\* order_sn null and a non-null delivery_method.
C4_Claim ==
    status = "returned" =>
        \A k \in 1..Len(doc) :
            ClaimedWithoutOrder(doc[k]) =>
                /\ RowsOf(k) = {}
                /\ \E r \in DiagsOf(k) :
                       /\ Unrecognized[r].order_sn = NoneT
                       /\ Unrecognized[r].delivery_method # PyNone

\* C5 as claimed: in the pair a finished scan returns, every page number of the
\* document appears exactly once, as one recognized row or as one diagnostic.
C5_Claim ==
    status = "returned" =>
        \A k \in 1..Len(doc) : Cardinality(RowsOf(k)) + Cardinality(DiagsOf(k)) = 1

\* the rows of rs for the pages other than k
RowsBut(rs, k) == SelectSeq(rs, LAMBDA r : r.page # k)

\* C6 as claimed: extraction raising on page k does not end the scan; the scan
\* returns, page k has a diagnostic, and the rows of the other pages are those
\* of the same document with an unrecognizable page in place of page k.
C6_Claim ==
    /\ status = "raised" => ~doc[i].bad
    /\ status = "returned" =>
           \A k \in 1..Len(doc) :
               doc[k].bad =>
                   /\ DiagsOf(k) # {}
                   /\ RowsBut(Recognized, k) =
                          RowsBut(ScanRun([doc EXCEPT ![k] = PageNoMarker]).rows, k)

\* the normalized codes of the registered parsers
RegisteredMethods == {Parse(r, 1, <<>>, <<>>).delivery_method : r \in Recognizers}

\* C7 as claimed: the delivery_method of every recognized row is the code of
\* a registered parser (SPX, GHN, JT).
C7_Claim == \A r \in 1..Len(Recognized) : Recognized[r].delivery_method \in RegisteredMethods

Platforms == {"shopee", "tiktok", "lazada", "unknown"}

\* the platform the claim gives a carrier code
PlatformOK(platform, method) ==
    /\ platform \in Platforms
    /\ method \in {"SPX", "GHN"} => platform = "shopee"
    /\ method = "JT" => platform = "tiktok"

\* C8 as claimed: platform is one of shopee, tiktok, lazada, unknown in every
\* PageResult and in every recognized row: shopee for SPX and GHN, tiktok for JT.
C8_Claim ==
    /\ status = "dispatched" /\ dispatched.result # NoneR =>
           PlatformOK(dispatched.result.platform, dispatched.result.delivery_method)
    /\ \A r \in 1..Len(Recognized) :
           PlatformOK(Recognized[r].platform, Recognized[r].delivery_method)

\* C9 as claimed: the shop_name of every PageResult and of every recognized
\* row is a string that is neither null nor empty (a failed extraction gives
\* the sentinel "UNKNOWN_SHOP").
C9_Claim ==
    /\ status = "dispatched" /\ dispatched.result # NoneR =>
           dispatched.result.shop_name \notin {NoneT, <<>>}
    /\ \A r \in 1..Len(Recognized) : Recognized[r].shop_name \notin {NoneT, <<>>}

\* the order-identifier label the parser looks for
OrderLabel(parser) == IF parser = TikTokJT THEN RE_ORDER_ID ELSE RE_ORDER

\* the label (with or without a value after it) occurs in the text
LabelPresent(full_text, pieces) ==
    \E p \in 1..Len(full_text) : PiecesEnd(full_text, p, pieces) # 0

C11_Claim ==
    status = "dispatched" =>
        (TikTokCanHandle(dispatched.page.text, dispatched.page.words) =>
            LabelPresent(dispatched.page.text, RE_ORDER_ID))

\* a Shopee parser (SPX or GHN) can handle page p
ShopeeCanHandle(p) == SPXCanHandle(p.text, p.words) \/ GHNCanHandle(p.text, p.words)

\* C12: in the default chain the TikTok-J&T parser is asked before both Shopee
\* parsers: a page that the TikTok parser and a Shopee parser can both handle
\* comes back with platform tiktok and delivery_method JT, and no Shopee
\* parser has been consulted.
C12_TikTokFirst ==
    status = "dispatched" =>
        LET p == dispatched.page IN
        TikTokCanHandle(p.text, p.words) /\ ShopeeCanHandle(p) =>
            /\ dispatched.result # NoneR
            /\ dispatched.result.platform = "tiktok"
            /\ dispatched.result.delivery_method = "JT"
            /\ dispatched.consulted = <<TikTokJT>>

\* C12 witness: a page with the J&T markers and a GHN delivery code has been
\* dispatched and came back as a TikTok page
C12_Witness ==
    /\ status = "dispatched"
    /\ TikTokCanHandle(dispatched.page.text, dispatched.page.words)
    /\ GHNCanHandle(dispatched.page.text, dispatched.page.words)
    /\ dispatched.result.platform = "tiktok"
    /\ dispatched.result.delivery_method = "JT"

\* C13: the rows a scan has built, and returns, are in strictly ascending page
\* order; the page of each row is the 1-based index of the page of the
\* document its order identifier was read from; no page has two rows.
C13_PageOrder ==
    /\ \A r \in 1..Len(Recognized) :
           /\ Recognized[r].page \in 1..Len(doc)
           /\ ~doc[Recognized[r].page].bad
           /\ Recognized[r].order_sn = ScanOrderId(doc[Recognized[r].page].text)
    /\ \A r, s \in 1..Len(Recognized) :
           r < s => Recognized[r].page < Recognized[s].page
    /\ \A k \in 1..Len(doc) : Cardinality(RowsOf(k)) <= 1

\* C13 witness: a scan of two pages has returned; the first page gave no row
\* and the one row returned carries page 2
C13_Witness ==
    /\ status = "returned"
    /\ Len(doc) = 2
    /\ ScanOrderId(doc[1].text) # ScanOrderId(doc[2].text)
    /\ Len(Recognized) = 1
    /\ Recognized[1].page = 2

\* C14: a scan gives what an earlier scan of the same document gave, whatever
\* was scanned in between: it ends the same way (returns or raises) and, when
\* it returns, returns the same rows and the same (absent) diagnostics; and
\* the chain has the members and the order it had when the module was loaded.
C14_Deterministic ==
    /\ PARSERS = DefaultParsers
    /\ earlier # NoCall => earlier.chain = PARSERS
    /\ (earlier # NoCall /\ status \in {"returned", "raised"} /\ earlier.doc = doc) =>
           /\ earlier.status = status
           /\ status = "returned" => earlier.rows = Recognized

\* C14 witness: a two-page document that yields two rows was scanned and its
\* outcome kept; a later scan of the same document has returned the same rows
C14_Witness ==
    /\ earlier # NoCall
    /\ status = "returned"
    /\ earlier.doc = doc
    /\ earlier.status = "returned"
    /\ earlier.rows = Recognized
    /\ Len(Recognized) = 2

\* the entry of page k among the rows rs
EntryOf(rs, k) == SelectSeq(rs, LAMBDA r : r.page = k)

\* C15 as claimed: in a finished scan the entry of page k, every field of it,
\* depends on page k alone: with any other page j replaced by another
\* readable page, a scan that finishes gives page k the same entry.
C15_Claim ==
    status = "returned" =>
        \A k \in 1..Len(doc), j \in 1..Len(doc), q \in Pages :
            (j # k /\ ~q.bad
                /\ ScanRun([doc EXCEPT ![j] = q]).status = "returned") =>
                EntryOf(ScanRun([doc EXCEPT ![j] = q]).rows, k) = EntryOf(Recognized, k)

\* the first token of ws whose text holds the marker, 0 without one
AnchorOf(ws, marker) == FirstWith(ws, marker)

\* the tokens of ws in the collection window: top strictly between tuY1 and
\* tuY1 + 20, left edge strictly less than denX0
InWindow(ws, denX0, tuY1) ==
    {k \in 1..Len(ws) : tuY1 < ws[k].top /\ ws[k].top < tuY1 + 20 /\ ws[k].x0 < denX0}

\* an anchor is absent from ws, or both are there and the window is empty
NothingToCollect(ws) ==
    \/ AnchorOf(ws, DEN) = 0
    \/ AnchorOf(ws, TU) = 0
    \/ InWindow(ws, ws[AnchorOf(ws, DEN)].x0, ws[AnchorOf(ws, TU)].bottom) = {}

\* C16: the shared shop-name helper returns "UNKNOWN_SHOP" for every token
\* list in which the right-column anchor is absent, or the left-column anchor
\* is absent, or both are present and no token lies in the collection window.
C16_Sentinel ==
    (status = "extracted" /\ NothingToCollect(helper.words)) =>
        helper.shop_name = UNKNOWN_SHOP

\* C16 witness: the helper was called with both anchors and one more token,
\* which sits on the edge of the window, and returned the sentinel
C16_Witness ==
    /\ status = "extracted"
    /\ Len(helper.words) = 3
    /\ AnchorOf(helper.words, DEN) # 0
    /\ AnchorOf(helper.words, TU) # 0
    /\ \E k \in 1..3 : helper.words[k] \in {W_AT, W_FAR, W_BOB}
    /\ NothingToCollect(helper.words)
    /\ helper.shop_name = UNKNOWN_SHOP

\* the word occurs in the text, letter case ignored
HasNoCase(text, word) ==
    \E p \in 1..(Len(text) - Len(word) + 1) :
        \A k \in 1..Len(word) : UpperC(text[p + k - 1]) = UpperC(word[k])

InstantMarker(text) ==
    \/ HasNoCase(text, <<"i","n","s","t","a","n","t">>)
    \/ HasNoCase(text, <<"t","u_horn_acute","c"," ","t","h","i_grave">>)

ExpressMarker(text) ==
    \/ HasNoCase(text, <<"n","h","a","n","h">>)
    \/ HasNoCase(text, <<"e","x","p","r","e","s","s">>)

\* C17: for every page the SPX parser has parsed, delivery_method is "SPX"
\* and delivery_method_raw is "SPX Instant" when the text holds an instant
\* marker in any letter case (an express marker may be there too), otherwise
\* "SPX Express" when it holds "nhanh" or "express" in any letter case,
\* otherwise "SPX".
C17_SubVariant ==
    (status = "dispatched" /\ dispatched.parsed = <<ShopeeSPX>>) =>
        /\ dispatched.result.delivery_method = "SPX"
        /\ dispatched.result.delivery_method_raw =
               IF InstantMarker(dispatched.page.text) THEN "SPX Instant"
               ELSE IF ExpressMarker(dispatched.page.text) THEN "SPX Express"
               ELSE "SPX"

\* C17 witness: the SPX parser has parsed a page that holds an express marker
\* and an instant marker, and gave "SPX Instant"
C17_Witness ==
    /\ status = "dispatched"
    /\ dispatched.parsed = <<ShopeeSPX>>
    /\ InstantMarker(dispatched.page.text)
    /\ ExpressMarker(dispatched.page.text)
    /\ dispatched.result.delivery_method_raw = "SPX Instant"

\* the texts of the tokens of ws in the collection window, in reading order
LineWords(ws) ==
    LET win == InWindow(ws, ws[AnchorOf(ws, DEN)].x0, ws[AnchorOf(ws, TU)].bottom)
    IN  [r \in 1..Cardinality(win) |->
            ws[CHOOSE k \in win : Cardinality({m \in win : m <= k}) = r].text]

\* scenario 1: a delivery-code label with a value starting with SPX, an
\* order-code label with a value, and words on the line below the left-column
\* anchor, left of the right-column anchor
Scenario1(p) ==
    /\ ~p.bad
    /\ SearchLabel(p.text, RE_DELIVERY) # NoneT
    /\ StartsWith(SearchLabel(p.text, RE_DELIVERY), <<"S","P","X">>)
    /\ SearchLabel(p.text, RE_ORDER) # NoneT
    /\ ~NothingToCollect(p.words)

\* C18 as claimed: in a finished scan a scenario-1 page has exactly one
\* recognized row, with order_sn the value of the order-code label, shop_name
\* the words of the line joined by single spaces, platform "shopee" and
\* delivery_method "SPX", and it has no diagnostic.
C18_Claim ==
    status = "returned" =>
        \A k \in 1..Len(doc) :
            Scenario1(doc[k]) =>
                /\ Cardinality(RowsOf(k)) = 1
                /\ DiagsOf(k) = {}
                /\ \A r \in RowsOf(k) :
                       /\ Recognized[r].order_sn = SearchLabel(doc[k].text, RE_ORDER)
                       /\ Recognized[r].shop_name = Join(LineWords(doc[k].words))
                       /\ Recognized[r].delivery_method = "SPX"
                       /\ Recognized[r].platform = "shopee"

\* the positions at which the sender label stands at the end of a line
SenderAt(text) == {a \in 1..Len(text) : LitAt(text, a, T_NG \o NL)}

\* the position of the first line break of text from q on (past the end without one)
LineEnd(text, q) == Min({r \in q..Len(text) : text[r] = "\n"} \cup {Len(text) + 1})

\* the line after the sender label at a is not empty and the line after it begins with a digit
ShopLineAt(text, a) ==
    /\ LineEnd(text, a + Len(T_NG) + 1) > a + Len(T_NG) + 1
    /\ LineEnd(text, a + Len(T_NG) + 1) < Len(text)
    /\ IsDigit(text[LineEnd(text, a + Len(T_NG) + 1) + 1])

\* the line after the first sender label
ShopLine(text) ==
    SubSeq(text, Min(SenderAt(text)) + Len(T_NG) + 1,
           LineEnd(text, Min(SenderAt(text)) + Len(T_NG) + 1) - 1)

\* scenario 3: "Order ID: V", a sender label followed on the next line by a
\* shop name and then by a line beginning with a digit, no delivery-code label
Scenario3(p) ==
    /\ ~p.bad
    /\ SearchLabel(p.text, RE_ORDER_ID) # NoneT
    /\ SearchLabel(p.text, RE_DELIVERY) = NoneT
    /\ SenderAt(p.text) # {}
    /\ ShopLineAt(p.text, Min(SenderAt(p.text)))

\* the row or PageResult r is the TikTok-J&T entry of the scenario-3 page p
TikTokEntry(r, p) ==
    /\ r.order_sn = SearchLabel(p.text, RE_ORDER_ID)
    /\ r.shop_name = ShopLine(p.text)
    /\ r.platform = "tiktok"
    /\ r.delivery_method = "JT"

\* C19 as claimed: a scenario-3 page is recognized as a TikTok-J&T page: the
\* chain gives it a PageResult, and a finished scan exactly one row, with
\* order_sn V, shop_name the shop name line, platform "tiktok" and
\* delivery_method "JT".
C19_Claim ==
    /\ (status = "dispatched" /\ Scenario3(dispatched.page)) =>
           /\ dispatched.result # NoneR
           /\ TikTokEntry(dispatched.result, dispatched.page)
    /\ status = "returned" =>
           \A k \in 1..Len(doc) :
               Scenario3(doc[k]) =>
                   /\ Cardinality(RowsOf(k)) = 1
                   /\ \A r \in RowsOf(k) : TikTokEntry(Recognized[r], doc[k])

\* the number of rows of order_prints that hold order_sn
RecordsOf(order_sn) ==
    Cardinality({id \in 1..Len(order_prints) : order_prints[id].order_sn = order_sn})

\* C20 as claimed: whatever print requests have been served, one after the
\* other or at the same time, order_prints never holds two rows with the same
\* order_sn.
C20_Claim ==
    \A id \in 1..Len(order_prints) : RecordsOf(order_prints[id].order_sn) = 1

\* the files that hold order_sn: those with a FileOrder row for it
FilesWith(order_sn) ==
    {f \in Filenames : \E k \in 1..Len(FileOrders[f]) : FileOrders[f][k].order_sn = order_sn}

\* the number of successful print requests served so far whose file holds order_sn
PrintsOf(order_sn) ==
    Cardinality({j \in 1..Len(print_jobs) :
                    /\ print_jobs[j].status = "success"
                    /\ print_jobs[j].filename \in FilesWith(order_sn)})

\* C21 as claimed: the print_count stored for an order_sn is the number of
\* successful print requests whose file held that order_sn, whatever the
\* copies asked for and however many pages of the file carry the order_sn.
C21_Claim ==
    \A id \in 1..Len(order_prints) :
        order_prints[id].print_count = PrintsOf(order_prints[id].order_sn)

\* request t hands the file to the printer in this step, and a command reaches it
SendsToPrinter(t) ==
    /\ requests[t].pc = "print"
    /\ requests'[t].pc = "record"
    /\ spooled' # spooled

\* request t is turned away in this step with the response code
TurnedAway(t, code) ==
    /\ requests'[t].pc = "done"
    /\ requests'[t].response = code
    /\ UNCHANGED <<print_jobs, order_prints, spooled>>

\* C22 as claimed: a file that has a PrintJob with status "success" is sent to
\* the printer again only by a request with is_reprint and a non-empty
\* reprint_reason, however the requests interleave; validated against such a
\* file, a request without is_reprint is answered 409 and a reprint without a
\* reason 400, and neither prints or writes anything.
C22_Claim ==
    [][\A t \in Threads :
          /\ (SendsToPrinter(t) /\ PrevCount(print_jobs, requests[t].filename) > 0) =>
                 (requests[t].is_reprint /\ requests[t].reprint_reason # "")
          /\ (requests[t].pc = "check" /\ requests'[t].pc # "check"
                /\ PrevCount(print_jobs, requests[t].filename) > 0) =>
                 /\ ~requests[t].is_reprint => TurnedAway(t, 409)
                 /\ (requests[t].is_reprint /\ requests[t].reprint_reason = "") =>
                        TurnedAway(t, 400)
      ]_vars

\* the tokens of ws whose top is strictly inside (tuY1, tuY1 + 20)
InBand(ws, tuY1) == {k \in 1..Len(ws) : tuY1 < ws[k].top /\ ws[k].top < tuY1 + 20}

\* the in-band tokens with left edge >= denX0 that follow a token of the window
Boundaries(ws, denX0, tuY1) ==
    {k \in InBand(ws, tuY1) :
        /\ ws[k].x0 >= denX0
        /\ \E j \in InWindow(ws, denX0, tuY1) : j < k}

\* the tokens of the window before the first boundary
Kept(ws, denX0, tuY1) ==
    {k \in InWindow(ws, denX0, tuY1) : \A b \in Boundaries(ws, denX0, tuY1) : k < b}

\* the texts of the tokens of ws at the positions S, in token order
RECURSIVE TextsAt(_, _, _)
TextsAt(ws, S, k) ==
    IF k > Len(ws) THEN <<>>
    ELSE (IF k \in S THEN <<ws[k].text>> ELSE <<>>) \o TextsAt(ws, S, k + 1)

\* the kept texts joined by single spaces and trimmed
KeptLine(ws) ==
    Strip(Join(TextsAt(ws, Kept(ws, ws[AnchorOf(ws, DEN)].x0, ws[AnchorOf(ws, TU)].bottom), 1)))

BothAnchors(ws) == AnchorOf(ws, DEN) # 0 /\ AnchorOf(ws, TU) # 0

\* C23 as claimed: with both anchors present the shared shop-name extractor
\* returns the single-space-joined, trimmed texts, in token order, of the
\* tokens of the window that come before the first in-band token with left
\* edge >= denX0 that follows a collected token.
C23_Claim ==
    (status = "extracted" /\ BothAnchors(helper.words)) =>
        helper.shop_name = KeptLine(helper.words)

\* C23 as amended: the same, except that "UNKNOWN_SHOP" is returned when that
\* text is empty.
C23_KeptOrSentinel ==
    (status = "extracted" /\ BothAnchors(helper.words)) =>
        helper.shop_name = (IF KeptLine(helper.words) = <<>> THEN UNKNOWN_SHOP
                            ELSE KeptLine(helper.words))

\* C23 witness: in a list with both anchors a token of the window was
\* collected, the right-column token after it stopped the collection, and a
\* token of the window after that one was left out
C23_Witness ==
    /\ status = "extracted"
    /\ BothAnchors(helper.words)
    /\ \E a, b, c \in 1..Len(helper.words) :
          /\ a < b /\ b < c
          /\ helper.words[a] = W_SHOP
          /\ helper.words[b] = W_BOB
          /\ helper.words[c] = W_ABC
    /\ helper.shop_name = <<"S","h","o","p">>

\* the text holds a delivery-code label, and the value after it, upper-cased,
\* starts with the prefix
CarrierPrefix(text, prefix) ==
    /\ LabelPresent(text, RE_DELIVERY)
    /\ SearchLabel(text, RE_DELIVERY) # NoneT
    /\ StartsWith(Upper(SearchLabel(text, RE_DELIVERY)), prefix)

\* the parser is among those of the chain that say they can handle page p
Accepts(parser, p) == \E k \in Claimants(PARSERS, p) : PARSERS[k] = parser

\* C24 as claimed: the SPX recognizer accepts a page exactly when the value
\* after the delivery-code label, upper-cased, starts with "SPX", the GHN
\* recognizer exactly when it starts with "GY", and the scanner gives the rows
\* of such a page the carrier SPX or GHN by the same case-insensitive rule.
C24_Claim ==
    /\ status = "dispatched" =>
           /\ Accepts(ShopeeSPX, dispatched.page)
                  <=> CarrierPrefix(dispatched.page.text, <<"S","P","X">>)
           /\ Accepts(ShopeeGHN, dispatched.page)
                  <=> CarrierPrefix(dispatched.page.text, <<"G","Y">>)
    /\ status = "returned" =>
           \A k \in 1..Len(doc) : \A r \in RowsOf(k) :
               /\ CarrierPrefix(doc[k].text, <<"S","P","X">>) =>
                      Recognized[r].delivery_method = "SPX"
               /\ CarrierPrefix(doc[k].text, <<"G","Y">>) =>
                      Recognized[r].delivery_method = "GHN"

\* the word is at least half digit characters
DigitHeavy(word) == 2 * DigitCount(word) >= Len(word)

\* the longest prefix of the words none of which is at least half digits
CleanPrefix(ws) ==
    SubSeq(ws, 1, Min({k \in 1..Len(ws) : DigitHeavy(ws[k])} \cup {Len(ws) + 1}) - 1)

\* the shop name of a capture: the prefix joined by single spaces, the raw
\* capture when the prefix is empty, "UNKNOWN_SHOP" without a match
ShopOfCapture(capture) ==
    IF capture = NoneT THEN UNKNOWN_SHOP
    ELSE IF CleanPrefix(Split(capture)) # <<>> THEN Join(CleanPrefix(Split(capture)))
    ELSE Strip(capture)

\* C25: the TikTok shop name, of the parser and of the scanner on a J&T page,
\* is the single-space join of the longest prefix of the words of the sender
\* capture whose digit ratio is below 0.5, the raw capture when that prefix is
\* empty, and "UNKNOWN_SHOP" when the sender pattern does not match.
C25_ShopName ==
    /\ (status = "dispatched" /\ dispatched.parsed = <<TikTokJT>>) =>
           dispatched.result.shop_name =
               ShopOfCapture(SearchSender(dispatched.page.text, FALSE))
    /\ status = "returned" =>
           \A r \in 1..Len(Recognized) :
               Recognized[r].delivery_method = "JT" =>
                   Recognized[r].shop_name =
                       ShopOfCapture(SearchSender(doc[Recognized[r].page].text, TRUE))

\* C25 witness: the parser was handed a sender line with a word that is half
\* digits, and returned the words before it alone
C25_Witness ==
    /\ status = "dispatched"
    /\ dispatched.page = PageJTSup
    /\ dispatched.result # NoneR
    /\ dispatched.result.shop_name = <<"M","y">>

\* the rows the upload being served has in the two tables
OwnFiles == SelectSeq(uploaded_files, LAMBDA row : row.id = upload.id)
OwnOrders == SelectSeq(file_orders, LAMBDA row : row.uploaded_file_id = upload.id)

\* the order_sn, page by page, of the FileOrder rows of uploaded file id
OrdersOfFile(id) ==
    [k \in 1..Len(SelectSeq(file_orders, LAMBDA row : row.uploaded_file_id = id)) |->
        SelectSeq(file_orders, LAMBDA row : row.uploaded_file_id = id)[k].order_sn]

\* the order_sn, page by page, that a scan of the named file finds
OrdersScanned(original_name) ==
    [k \in 1..Len(ScannedOrders(Scans[original_name])) |->
        ScannedOrders(Scans[original_name])[k].order_sn]

\* C26: get_session commits exactly once when the body ends without an
\* exception, rolls back and lets the exception out when the body or the
\* commit raises, and closes the session either way; so an upload leaves the
\* UploadedFile row with every FileOrder row of its scan in the tables, or
\* no row at all.
C26_CommitOrRollback ==
    /\ upload.pc \notin {"idle", "done"} => ~upload.closed
    /\ (upload.pc = "done" /\ upload.response # 400) =>
           /\ upload.closed
           /\ upload.commits + upload.rollbacks = 1
           /\ upload.raised <=> upload.rollbacks = 1
           /\ upload.raised => Len(OwnFiles) = 0 /\ Len(OwnOrders) = 0
           /\ ~upload.raised =>
                  /\ Len(OwnFiles) = 1
                  /\ Len(OwnOrders) = Len(upload.scanned_orders)
    /\ \A k \in 1..Len(uploaded_files) :
           OrdersOfFile(uploaded_files[k].id) = OrdersScanned(uploaded_files[k].original_name)
    /\ \A k \in 1..Len(file_orders) :
           \E j \in 1..Len(uploaded_files) :
               uploaded_files[j].id = file_orders[k].uploaded_file_id

\* C26 witness: an upload with scanned orders and a name not in the table has
\* met a failure of the database after an earlier upload was committed; its
\* session is closed and the response made
C26_Witness ==
    /\ upload.pc = "done"
    /\ upload.response # 400
    /\ upload.raised
    /\ upload.closed
    /\ upload.scanned_orders # <<>>
    /\ ~Duplicate(uploaded_files, upload.unique_name)
    /\ Len(uploaded_files) > 0

\* the ids of the n most recently added of the first `added` jobs, newest first
NewestIds(added, n) == [k \in 1..n |-> added + 1 - k]

\* C27: after any sequence of add_job calls the job log holds the min(n, 200)
\* most recently added of the n jobs added so far, newest first, and the
\* record the last call returned is the first of the stored list.
C27_NewestFirst ==
    /\ Len(jobs) = (IF clock < JobLogCap THEN clock ELSE JobLogCap)
    /\ [k \in 1..Len(jobs) |-> jobs[k].id] = NewestIds(clock, Len(jobs))
    /\ clock > 0 => job = jobs[1]

\* C27 witness: more than 200 jobs were added and the oldest are gone
C27_Witness ==
    /\ clock > JobLogCap
    /\ Len(jobs) = JobLogCap
    /\ jobs[JobLogCap].id = clock - JobLogCap + 1
    /\ job = jobs[1]

\* the chain with the SPX and the GHN recognizer in each other's place
Swapped(chain) ==
    [k \in 1..Len(chain) |->
        IF chain[k] = ShopeeSPX THEN ShopeeGHN
        ELSE IF chain[k] = ShopeeGHN THEN ShopeeSPX
        ELSE chain[k]]

\* the two stand next to each other in the chain: putting each in the other's
\* place changes their relative order and the order of no other pair
Neighbours(chain) ==
    \E k \in 1..(Len(chain) - 1) : {chain[k], chain[k + 1]} = {ShopeeSPX, ShopeeGHN}

\* C28: no page is accepted by both the SPX and the GHN recognizer, so the
\* order of these two relative to each other does not change the result the
\* chain gives for any page.
C28_Exclusive ==
    status = "dispatched" =>
        /\ ~(Accepts(ShopeeSPX, dispatched.page) /\ Accepts(ShopeeGHN, dispatched.page))
        /\ Neighbours(PARSERS) =>
               dispatch_page(Swapped(PARSERS), dispatched.page_number,
                             dispatched.page.text, dispatched.page.words).result
                   = dispatched.result

\* C28 witness: a chain that asks the GHN recognizer before the SPX one was
\* handed an SPX page, and the SPX recognizer parsed it
C28_Witness ==
    /\ status = "dispatched"
    /\ \E k \in 1..(Len(PARSERS) - 1) : PARSERS[k] = ShopeeGHN /\ PARSERS[k + 1] = ShopeeSPX
    /\ dispatched.parsed = <<ShopeeSPX>>
    /\ ShopeeGHN \in {dispatched.consulted[k] : k \in 1..Len(dispatched.consulted)}

\* C29 as claimed: the shop name the scanner computes inline for a page it
\* classifies SPX or GHN is the value _extract_shop_from_tu_den returns for
\* the tokens of that page, also when an anchor coordinate is 0 and when both
\* anchors are there and no token is in the collection window.
C29_Claim ==
    status = "returned" =>
        \A r \in 1..Len(Recognized) :
            Recognized[r].delivery_method \in {"SPX", "GHN"} =>
                Recognized[r].shop_name =
                    extract_shop_from_tu_den(doc[Recognized[r].page].words)

\* request t has made its print calls and one of them returned False
Failed(t) ==
    /\ requests[t].pc \in {"record", "commit", "log", "done"}
    /\ requests[t].results # <<>>
    /\ ~requests[t].success

\* the step is one of request t
StepOf(t) == requests'[t] # requests[t]

\* the PrintJob a failed request leaves: of its file, with status "error"
ErrorJobOf(r) ==
    [ filename |-> r.filename, copies |-> r.copies, is_reprint |-> r.is_reprint,
      reprint_reason |-> IF r.is_reprint THEN r.reprint_reason ELSE PyNone,
      status |-> "error", print_time_utc |-> r.received ]

====
